---- MODULE Spec2Model ----
(***************************************************************************)
(* A model of the Blunder chess engine: the board (bitboards + mailbox),   *)
(* make/unmake with incremental Zobrist hashing, the legal move generator  *)
(* and the iterative-deepening search driver.                              *)
(*                                                                         *)
(* A bitboard (uint64) is modelled as the set of squares whose bit is set. *)
(* Square s is bit 63-s of the word (setBit shifts the most significant    *)
(* bit right by s), so the least significant set bit is the HIGHEST square *)
(* of the set: popLSB walks a bitboard from square 63 down to square 0.    *)
(* A Zobrist hash is modelled as the set of indexes into Random64 whose    *)
(* keys are XORed into it: XOR of keys is symmetric difference of sets.    *)
(***************************************************************************)
EXTENDS Integers, Sequences, FiniteSets, TLC

(***************************************************************************)
(* Bounds of the model.                                                    *)
(***************************************************************************)
\* most moves made on the board since the last LoadFEN
MaxPly == 2
\* most go commands the driver receives in one run
MaxSearches == 2
\* most milliseconds one search is let to add up
MaxSearchTime == 2000

\* the depth of the last iteration of a Search whose tree is built
MaxTreeDepth == 2

\* the number of calls of the searcher made one after another
MaxCalls == 2

\* the number of inputs the driver gives one after another
MaxInputs == 2

\* the number of moves of a game played from the position with two rooks
MaxGamePly == 3

\* the longest move list handed to sortMoves
MaxSortLen == 4

\* the deepest iteration of a Search on the two pawn endings
MaxLineDepth == 4

(***************************************************************************)
(* Constants of the program.                                               *)
(***************************************************************************)
PawnBB == 0
KnightBB == 1
BishopBB == 2
RookBB == 3
QueenBB == 4
KingBB == 5
WhiteBB == 6
BlackBB == 7

Pawn == 0
Knight == 32
Bishop == 64
Rook == 96
Queen == 128
King == 160
White == 24
Black == 28
NoPiece == 0

WhiteKingside == 128
WhiteQueenside == 64
BlackKingside == 32
BlackQueenside == 16

NoEPSquare == -1

Quiet == 0
Attack == 1
AttackEP == 2
CastleWKS == 3
CastleWQS == 4
CastleBKS == 5
CastleBQS == 6
KnightPromotion == 7
BishopPromotion == 8
RookPromotion == 9
QueenPromotion == 10

A1 == 0
C1 == 2
D1 == 3
E1 == 4
F1 == 5
G1 == 6
H1 == 7
A8 == 56
C8 == 58
D8 == 59
E8 == 60
F8 == 61
G8 == 62
H8 == 63

\* the squares between the king and its rooks that castling needs empty
F1_G1 == {5, 6}
B1_C1_D1 == {1, 2, 3}
F8_G8 == {61, 62}
B8_C8_D8 == {57, 58, 59}

\* length of Board.undoInfoList
UndoListLen == 200

Squares == 0..63

(***************************************************************************)
(* Bit utilities.                                                          *)
(***************************************************************************)
SetMax(S) == CHOOSE x \in S : \A y \in S : y <= x

\* 63 - TrailingZeros64: the highest square of the set; -1 for the empty word
getLSBPos(bb) == IF bb = {} THEN -1 ELSE SetMax(bb)

setSingleBit(pos) == {pos}

setBit(bb, pos) == bb \cup {pos}

clearBit(bb, pos) == bb \ {pos}

abs(i) == IF i < 0 THEN -i ELSE i

\* the squares of a bitboard in the order popLSB yields them
RECURSIVE popLSBOrder(_)
popLSBOrder(bb) ==
  IF bb = {} THEN <<>>
  ELSE LET pos == SetMax(bb) IN <<pos>> \o popLSBOrder(bb \ {pos})

\* XOR of two hashes
Xor(h, k) == (h \ k) \cup (k \ h)

GetPieceType(square) == square \div 32

getPieceColor(square) == (square \div 4) % 8

(***************************************************************************)
(* Moves: from<<10 | to<<4 | moveType.                                     *)
(***************************************************************************)
NullMove == 0

SearchDepth == 8

TimeThreshHoldForBulletPlay == 180000

TimePerMoveBullet == 2000

PosInf == 2000000

NegInf == -2000000

PawnValue == 100

KnightValue == 320

BishopValue == 330

RookValue == 500

QueenValue == 975

KingValue == 2000000

CaptureBonus == 1000

MakeMove(from, to, moveType) == from * 1024 + to * 16 + moveType

getMoveFromSq(move) == (move \div 1024) % 64

getMoveToSq(move) == (move \div 16) % 64

getMoveType(move) == move % 16

(***************************************************************************)
(* Precomputed tables.                                                     *)
(***************************************************************************)
FileOf(s) == s % 8

RankOf(s) == s \div 8

OnBoard(f, r) == f \in 0..7 /\ r \in 0..7

Jump(s, deltas) ==
  { (RankOf(s) + d[2]) * 8 + FileOf(s) + d[1] :
      d \in { e \in deltas : OnBoard(FileOf(s) + e[1], RankOf(s) + e[2]) } }

North == <<0, 1>>
South == <<0, -1>>
East == <<1, 0>>
West == <<-1, 0>>
NorthEast == <<1, 1>>
NorthWest == <<-1, 1>>
SouthEast == <<1, -1>>
SouthWest == <<-1, -1>>
NoDirection == <<0, 0>>

CardinalDirections == {North, South, East, West}

IntercardinalDirections == {NorthEast, NorthWest, SouthEast, SouthWest}

KnightJumps ==
  {<<1, 2>>, <<2, 1>>, <<2, -1>>, <<1, -2>>, <<-1, -2>>, <<-2, -1>>, <<-2, 1>>, <<-1, 2>>}

KnightMoves == [s \in Squares |-> Jump(s, KnightJumps)]

KingMoves == [s \in Squares |-> Jump(s, CardinalDirections \cup IntercardinalDirections)]

WhitePawnPushes == [s \in Squares |-> Jump(s, {North})]

BlackPawnPushes == [s \in Squares |-> Jump(s, {South})]

WhitePawnAttacks == [s \in Squares |-> Jump(s, {NorthEast, NorthWest})]

BlackPawnAttacks == [s \in Squares |-> Jump(s, {SouthEast, SouthWest})]

Rank3 == 2
Rank6 == 5

MaskRank == [r \in 0..7 |-> {s \in Squares : RankOf(s) = r}]

MaskFile == [f \in 0..7 |-> {s \in Squares : FileOf(s) = f}]

\* the squares from s outward in direction d, nearest first
Ray == [s \in Squares |-> [d \in CardinalDirections \cup IntercardinalDirections |->
         LET n == Cardinality({k \in 1..7 : OnBoard(FileOf(s) + k * d[1], RankOf(s) + k * d[2])})
         IN [k \in 1..n |-> (RankOf(s) + k * d[2]) * 8 + FileOf(s) + k * d[1]]]]

\* direction from square a to square b when they share a line
LinesBetweenDirections == [a \in Squares |-> [b \in Squares |->
    IF \E d \in CardinalDirections \cup IntercardinalDirections :
         \E k \in 1..Len(Ray[a][d]) : Ray[a][d][k] = b
    THEN CHOOSE d \in CardinalDirections \cup IntercardinalDirections :
         \E k \in 1..Len(Ray[a][d]) : Ray[a][d][k] = b
    ELSE NoDirection]]

\* the squares after a up to and including b when they share a line
LinesBewteen == [a \in Squares |-> [b \in Squares |->
    LET d == LinesBetweenDirections[a][b] IN
    IF d = NoDirection THEN {}
    ELSE LET r == Ray[a][d]
             k == CHOOSE i \in 1..Len(r) : r[i] = b
         IN { r[i] : i \in 1..k }]]

\* squares a slider on `ray` reaches: up to and including the first blocker
RayAttack(ray, occupiedBB) ==
  { ray[i] : i \in { j \in 1..Len(ray) : \A m \in 1..(j - 1) : ray[m] \notin occupiedBB } }

genIntercardianlMovesBB(sliderBB, occupiedBB) ==
  LET sliderPos == getLSBPos(sliderBB) IN
  UNION { RayAttack(Ray[sliderPos][d], occupiedBB) : d \in IntercardinalDirections }

genCardianlMovesBB(sliderBB, occupiedBB) ==
  LET sliderPos == getLSBPos(sliderBB) IN
  UNION { RayAttack(Ray[sliderPos][d], occupiedBB) : d \in CardinalDirections }

directionIsCardinal(direction) == direction \in {North, South, East, West}

directionIsIntercardinal(direction) ==
  direction \in {NorthEast, SouthEast, NorthWest, SouthWest}

directionIsNorthOrSouth(direction) == direction \in {North, South}

(***************************************************************************)
(* Zobrist keys.  Random64 is the polyglot table: 768 piece-square keys,   *)
(* four castling keys, eight en-passant file keys and the turn key.  A key *)
(* is modelled by its index, the keys being independent random words.      *)
(***************************************************************************)
CastleWKSHash == 768
CastleWQSHash == 769
CastleBKSHash == 770
CastleBQSHash == 771
EPFileHashBase == 772
SideToMove == 780

Random64(i) == {i}

getPieceHash(piece, sq) ==
  Random64(64 * (2 * GetPieceType(piece)
                 + (IF getPieceColor(piece) = WhiteBB THEN 1 ELSE 0)) + sq)

getEPFileHash(epSq) == Random64(EPFileHashBase + FileOf(epSq))

\* the en-passant key takes part in the hash only when a pawn of the side
\* opposite to the pawn that advanced two ranks attacks the en-passant square
isValidZobristEPSq(board, epSq) ==
  IF epSq \in MaskRank[Rank3]
  THEN WhitePawnAttacks[epSq] \cap board.PieceBB[PawnBB] \cap board.PieceBB[BlackBB] # {}
  ELSE IF epSq \in MaskRank[Rank6]
  THEN BlackPawnAttacks[epSq] \cap board.PieceBB[PawnBB] \cap board.PieceBB[WhiteBB] # {}
  ELSE FALSE

HasRight(rights, right) == (rights \div right) % 2 = 1

ClearRight(rights, right) == IF HasRight(rights, right) THEN rights - right ELSE rights

SetRight(rights, right) == IF HasRight(rights, right) THEN rights ELSE rights + right

RECURSIVE XorAll(_)
XorAll(keys) ==
  IF keys = {} THEN {}
  ELSE LET k == CHOOSE x \in keys : TRUE IN Xor(k, XorAll(keys \ {k}))

\* the hash of a position computed from scratch
initZobristHash(board) ==
  LET pieceKeys == { getPieceHash(board.Pieces[s], s) :
                       s \in board.PieceBB[WhiteBB] \cup board.PieceBB[BlackBB] }
      castleKeys ==
        { Random64(k[2]) : k \in { c \in { <<WhiteKingside, CastleWKSHash>>,
                                            <<WhiteQueenside, CastleWQSHash>>,
                                            <<BlackKingside, CastleBKSHash>>,
                                            <<BlackQueenside, CastleBQSHash>> } :
                                    HasRight(board.CastlingRights, c[1]) } }
      epKeys == IF board.EPSquare # NoEPSquare /\ isValidZobristEPSq(board, board.EPSquare)
                THEN {getEPFileHash(board.EPSquare)} ELSE {}
      sideKeys == IF board.WhiteToMove THEN {Random64(SideToMove)} ELSE {}
  IN XorAll(pieceKeys \cup castleKeys \cup epKeys \cup sideKeys)

(***************************************************************************)
(* The board.  undoInfoList holds the entries of the array up to gamePly;  *)
(* an entry above gamePly is written by saveState before popState can read *)
(* it, so the model drops it.  An entry never written is the zero UndoInfo.*)
(***************************************************************************)
ZeroUndoInfo ==
  [EPSquare |-> 0, CastlingRights |-> 0, HalfMoveClock |-> 0, HalfMoveCounter |-> 0,
   FullMoveCounter |-> 0, CaptureSq |-> 0, FromSq |-> 0]

EmptyUndoInfoList == [i \in {} |-> ZeroUndoInfo]

\* the zero values of the two arrays of the Board struct, each held as a
\* table (joining the empty function leaves the value as it is)
ZeroPieceBB == [i \in 0..7 |-> {}] @@ << >>

ZeroPieces == [s \in Squares |-> NoPiece] @@ << >>

\* the zero value of the Board struct
ZeroBoard ==
  [PieceBB |-> ZeroPieceBB,
   Pieces |-> ZeroPieces,
   WhiteToMove |-> FALSE,
   EPSquare |-> 0,
   HalfMoveCounter |-> 0,
   FullMoveCounter |-> 0,
   HalfMoveClock |-> 0,
   CastlingRights |-> 0,
   Hash |-> {},
   undoInfoList |-> EmptyUndoInfoList,
   gamePly |-> 0]

saveState(board, undoInfo) ==
  LET ply == board.gamePly + 1 IN
  [board EXCEPT !.gamePly = ply,
                !.undoInfoList = [i \in (DOMAIN board.undoInfoList) \cup {ply} |->
                                    IF i = ply THEN undoInfo ELSE board.undoInfoList[i]]]

\* popState without the decrement of gamePly
popState_KeepPly(board) ==
  [board EXCEPT !.undoInfoList = [i \in (DOMAIN board.undoInfoList) \ {board.gamePly} |->
                                    board.undoInfoList[i]]]

\* the entry popState returns
topState(board) ==
  IF board.gamePly \in DOMAIN board.undoInfoList
  THEN board.undoInfoList[board.gamePly] ELSE ZeroUndoInfo

popState(board) ==
  [board EXCEPT !.gamePly = board.gamePly - 1,
                !.undoInfoList = [i \in (DOMAIN board.undoInfoList) \ {board.gamePly} |->
                                    board.undoInfoList[i]]]

\* movePiece without the clearing of the color bit of the square left
movePiece_KeepColorBit(board, from, to) ==
  LET piece == board.Pieces[from]
      pieceType == GetPieceType(piece)
      pieceColor == getPieceColor(piece)
      bb1 == [board.PieceBB EXCEPT ![pieceType] = clearBit(@, from)]
      bb3 == [bb1 EXCEPT ![pieceType] = setBit(@, to)]
      bb4 == [bb3 EXCEPT ![pieceColor] = setBit(@, to)]
      p1 == [board.Pieces EXCEPT ![from] = NoPiece]
      p2 == [p1 EXCEPT ![to] = pieceType * 32 + pieceColor * 4]
  IN [board EXCEPT !.PieceBB = bb4,
                   !.Pieces = p2,
                   !.Hash = Xor(Xor(board.Hash, getPieceHash(piece, from)),
                                getPieceHash(piece, to))]

movePiece(board, from, to) ==
  LET piece == board.Pieces[from]
      pieceType == GetPieceType(piece)
      pieceColor == getPieceColor(piece)
      bb1 == [board.PieceBB EXCEPT ![pieceType] = clearBit(@, from)]
      bb2 == [bb1 EXCEPT ![pieceColor] = clearBit(@, from)]
      bb3 == [bb2 EXCEPT ![pieceType] = setBit(@, to)]
      bb4 == [bb3 EXCEPT ![pieceColor] = setBit(@, to)]
      p1 == [board.Pieces EXCEPT ![from] = NoPiece]
      p2 == [p1 EXCEPT ![to] = pieceType * 32 + pieceColor * 4]
  IN [board EXCEPT !.PieceBB = bb4,
                   !.Pieces = p2,
                   !.Hash = Xor(Xor(board.Hash, getPieceHash(piece, from)),
                                getPieceHash(piece, to))]

putPiece(board, pieceType, pieceColor, to) ==
  LET bb1 == [board.PieceBB EXCEPT ![pieceType] = setBit(@, to)]
      bb2 == [bb1 EXCEPT ![pieceColor] = setBit(@, to)]
      piece == pieceType * 32 + pieceColor * 4
  IN [board EXCEPT !.PieceBB = bb2,
                   !.Pieces = [board.Pieces EXCEPT ![to] = piece],
                   !.Hash = Xor(board.Hash, getPieceHash(piece, to))]

removePiece(board, from) ==
  LET piece == board.Pieces[from]
      pieceType == GetPieceType(piece)
      pieceColor == getPieceColor(piece)
      bb1 == [board.PieceBB EXCEPT ![pieceType] = clearBit(@, from)]
      bb2 == [bb1 EXCEPT ![pieceColor] = clearBit(@, from)]
  IN [board EXCEPT !.PieceBB = bb2,
                   !.Pieces = [board.Pieces EXCEPT ![from] = NoPiece],
                   !.Hash = Xor(board.Hash, getPieceHash(piece, from))]

(***************************************************************************)
(* DoMove.                                                                 *)
(***************************************************************************)
usColorOf(board) == IF board.WhiteToMove THEN WhiteBB ELSE BlackBB

enemyColorOf(board) == IF board.WhiteToMove THEN BlackBB ELSE WhiteBB

\* the square of the pawn an en-passant capture onto `to` removes
epCapturePos(usColor, to) == IF usColor = WhiteBB THEN to - 8 ELSE to + 8

\* DoMove panics when an Attack move takes a king
DoMovePanics(board, move) ==
  /\ getMoveType(move) = Attack
  /\ GetPieceType(board.Pieces[getMoveToSq(move)]) = KingBB

doPromotion(board, pieceType, usColor, from, to, captureSq) ==
  LET r1 == removePiece(board, from)
      r2 == IF captureSq # NoPiece THEN removePiece(r1, to) ELSE r1
  IN putPiece(r2, pieceType, usColor, to)

\* the switch of DoMove on the kind of move
doMovePieces(board, usColor, from, to, moveType, captureSq) ==
  CASE moveType = CastleWKS -> movePiece(movePiece(board, E1, G1), H1, F1)
    [] moveType = CastleWQS -> movePiece(movePiece(board, E1, C1), A1, D1)
    [] moveType = CastleBKS -> movePiece(movePiece(board, E8, G8), H8, F8)
    [] moveType = CastleBQS -> movePiece(movePiece(board, E8, C8), A8, D8)
    [] moveType = KnightPromotion -> doPromotion(board, KnightBB, usColor, from, to, captureSq)
    [] moveType = BishopPromotion -> doPromotion(board, BishopBB, usColor, from, to, captureSq)
    [] moveType = RookPromotion -> doPromotion(board, RookBB, usColor, from, to, captureSq)
    [] moveType = QueenPromotion -> doPromotion(board, QueenBB, usColor, from, to, captureSq)
    [] moveType = AttackEP ->
         movePiece(removePiece(board, epCapturePos(usColor, to)), from, to)
    [] moveType = Attack -> movePiece(removePiece(board, to), from, to)
    [] moveType = Quiet -> movePiece(board, from, to)
    [] OTHER -> board

\* rights without mask when lost
clearRightIf(lost, rights, mask) == IF lost THEN ClearRight(rights, mask) ELSE rights

\* the castling rights left after a move, read off the mailbox
updateCastlingRights(pieces, rights) ==
  clearRightIf(GetPieceType(pieces[A8]) # RookBB,
    clearRightIf(GetPieceType(pieces[H8]) # RookBB,
      clearRightIf(GetPieceType(pieces[E8]) # KingBB,
        clearRightIf(GetPieceType(pieces[E8]) # KingBB,
          clearRightIf(GetPieceType(pieces[A1]) # RookBB,
            clearRightIf(GetPieceType(pieces[H1]) # RookBB,
              clearRightIf(GetPieceType(pieces[E1]) # KingBB,
                clearRightIf(GetPieceType(pieces[E1]) # KingBB, rights, WhiteKingside),
                WhiteQueenside),
              WhiteKingside),
            WhiteQueenside),
          BlackKingside),
        BlackQueenside),
      BlackKingside),
    BlackQueenside)

\* the keys of the rights that `before` has and `now` has not
lostRightsKeys(before, now) ==
  XorAll({ Random64(k[2]) : k \in { c \in { <<WhiteKingside, CastleWKSHash>>,
                                             <<WhiteQueenside, CastleWQSHash>>,
                                             <<BlackKingside, CastleBKSHash>>,
                                             <<BlackQueenside, CastleBQSHash>> } :
                                     HasRight(before, c[1]) /\ ~HasRight(now, c[1]) } })

\* a buggy variant: the black queenside key is never taken out
doCastlingHash_DropBQS(hash, before, now) ==
  IF now # before THEN Xor(hash, lostRightsKeys(before, now) \ Random64(CastleBQSHash))
  ELSE hash

\* DoMove: take the keys of the rights the move lost out of the hash
doCastlingHash(hash, before, now) ==
  IF now # before THEN Xor(hash, lostRightsKeys(before, now)) ELSE hash

\* DoMove: the record kept for UndoMove
doMoveUndoInfo(board, from, to, moveType) ==
  [CastlingRights |-> board.CastlingRights,
   EPSquare |-> board.EPSquare,
   HalfMoveClock |-> board.HalfMoveClock,
   HalfMoveCounter |-> board.HalfMoveCounter,
   FullMoveCounter |-> board.FullMoveCounter,
   CaptureSq |-> IF moveType = AttackEP
                 THEN board.Pieces[epCapturePos(usColorOf(board), to)]
                 ELSE board.Pieces[to],
   FromSq |-> board.Pieces[from]]

\* DoMove: take the en-passant square out of the hash and clear it
doMoveClearEP(board) ==
  [board EXCEPT
     !.Hash = IF board.EPSquare # NoEPSquare /\ isValidZobristEPSq(board, board.EPSquare)
              THEN Xor(@, getEPFileHash(board.EPSquare)) ELSE @,
     !.EPSquare = NoEPSquare]

\* DoMove: the clocks, the new en-passant square, the castling rights and the
\* side to move, once the pieces have moved
doMoveUpdate(board, undoInfo, rights, from, to, moveType, usColor) ==
  [board EXCEPT
     !.HalfMoveClock = IF \/ GetPieceType(undoInfo.FromSq) = PawnBB
                          \/ moveType = Attack
                          \/ moveType = AttackEP
                       THEN 0 ELSE @ + 1,
     !.HalfMoveCounter = @ + 1,
     !.FullMoveCounter = IF (board.HalfMoveCounter + 1) % 2 = 0 THEN @ + 1 ELSE @,
     !.EPSquare = IF GetPieceType(undoInfo.FromSq) = PawnBB /\ abs(from - to) = 16
                  THEN epCapturePos(usColor, to) ELSE @,
     !.CastlingRights = rights,
     !.Hash = Xor(doCastlingHash(@, undoInfo.CastlingRights, rights), Random64(SideToMove)),
     !.WhiteToMove = ~@]

\* DoMove: put the new en-passant square into the hash
doMoveAddEP(board) ==
  [board EXCEPT
     !.Hash = IF board.EPSquare # NoEPSquare /\ isValidZobristEPSq(board, board.EPSquare)
              THEN Xor(@, getEPFileHash(board.EPSquare)) ELSE @]

\* DoMove: what follows the switch on the kind of move
doMoveAfterSwitch(board, undoInfo, from, to, moveType, usColor, save) ==
  IF save
  THEN saveState(doMoveAddEP(doMoveUpdate(board, undoInfo,
                                          updateCastlingRights(board.Pieces,
                                                               board.CastlingRights),
                                          from, to, moveType, usColor)),
                 undoInfo)
  ELSE doMoveAddEP(doMoveUpdate(board, undoInfo,
                                updateCastlingRights(board.Pieces, board.CastlingRights),
                                from, to, moveType, usColor))

\* DoMove with the record for UndoMove at hand
doMoveWith(board, undoInfo, from, to, moveType, usColor, save) ==
  doMoveAfterSwitch(doMovePieces(doMoveClearEP(board), usColor, from, to, moveType,
                                 undoInfo.CaptureSq),
                    undoInfo, from, to, moveType, usColor, save)

DoMove(board, move, save) ==
  doMoveWith(board,
             doMoveUndoInfo(board, getMoveFromSq(move), getMoveToSq(move),
                            getMoveType(move)),
             getMoveFromSq(move), getMoveToSq(move), getMoveType(move), usColorOf(board),
             save)

(***************************************************************************)
(* UndoMove.                                                               *)
(***************************************************************************)
\* a buggy variant: the keys of the lost rights are not put back
undoCastlingHash_Skip(hash, before, now) == hash

\* UndoMove: put the keys of the rights the move lost back into the hash
undoCastlingHash(hash, before, now) ==
  IF now # before THEN Xor(hash, lostRightsKeys(before, now)) ELSE hash

undoPromotion(board, usColor, from, to, captureSq) ==
  LET r1 == removePiece(board, to)
      r2 == IF captureSq # NoPiece
            THEN putPiece(r1, GetPieceType(captureSq), getPieceColor(captureSq), to)
            ELSE r1
  IN putPiece(r2, PawnBB, usColor, from)

\* the switch of UndoMove on the kind of move
undoMovePieces(board, usColor, from, to, moveType, undoInfo) ==
  CASE moveType = CastleWKS -> movePiece(movePiece(board, G1, E1), F1, H1)
    [] moveType = CastleWQS -> movePiece(movePiece(board, C1, E1), D1, A1)
    [] moveType = CastleBKS -> movePiece(movePiece(board, G8, E8), F8, H8)
    [] moveType = CastleBQS -> movePiece(movePiece(board, C8, E8), D8, A8)
    [] moveType \in {KnightPromotion, BishopPromotion, RookPromotion, QueenPromotion} ->
         undoPromotion(board, usColor, from, to, undoInfo.CaptureSq)
    [] moveType = AttackEP ->
         putPiece(movePiece(board, to, from), PawnBB, getPieceColor(undoInfo.CaptureSq),
                  epCapturePos(usColor, to))
    [] moveType = Attack ->
         putPiece(putPiece(removePiece(board, to), GetPieceType(undoInfo.CaptureSq),
                           getPieceColor(undoInfo.CaptureSq), to),
                  GetPieceType(undoInfo.FromSq), usColor, from)
    [] moveType = Quiet -> movePiece(board, to, from)
    [] OTHER -> board

\* UndoMove: the clocks and the side to move come back
undoMoveRestore(board, undoInfo) ==
  [board EXCEPT !.HalfMoveClock = undoInfo.HalfMoveClock,
                !.HalfMoveCounter = undoInfo.HalfMoveCounter,
                !.FullMoveCounter = undoInfo.FullMoveCounter,
                !.WhiteToMove = ~@,
                !.Hash = Xor(@, Random64(SideToMove))]

\* UndoMove: the castling rights come back
undoMoveRights(board, undoInfo) ==
  [board EXCEPT
     !.Hash = undoCastlingHash(@, undoInfo.CastlingRights, board.CastlingRights),
     !.CastlingRights = undoInfo.CastlingRights]

\* UndoMove: the en-passant square of the move goes out of the hash
undoMoveClearEP(board, undoInfo) ==
  [board EXCEPT
     !.Hash = IF board.EPSquare # NoEPSquare /\ isValidZobristEPSq(board, board.EPSquare)
              THEN Xor(@, getEPFileHash(board.EPSquare)) ELSE @,
     !.EPSquare = undoInfo.EPSquare]

\* UndoMove: the en-passant square of before goes back into the hash
undoMoveAddEP(board, undoInfo) ==
  [board EXCEPT
     !.Hash = IF undoInfo.EPSquare # NoEPSquare
                 /\ isValidZobristEPSq(board, undoInfo.EPSquare)
              THEN Xor(@, getEPFileHash(board.EPSquare)) ELSE @]

\* UndoMove: the switch on the kind of move and what follows it
undoMoveSwitch(board, undoInfo, move) ==
  undoMoveAddEP(undoMovePieces(board, usColorOf(board), getMoveFromSq(move),
                               getMoveToSq(move), getMoveType(move), undoInfo),
                undoInfo)

\* UndoMove with the popped record at hand
undoMoveWith(board, undoInfo, move) ==
  undoMoveSwitch(undoMoveClearEP(undoMoveRights(undoMoveRestore(board, undoInfo), undoInfo),
                                 undoInfo),
                 undoInfo, move)

UndoMove(board, move) == undoMoveWith(popState(board), topState(board), move)

(***************************************************************************)
(* Attacks.                                                                *)
(***************************************************************************)
attackersOfSquare(board, enemyColor, squareBB, usBB) ==
  LET enemyBB == board.PieceBB[enemyColor]
      enemyBishop == enemyBB \cap board.PieceBB[BishopBB]
      enemyRook == enemyBB \cap board.PieceBB[RookBB]
      enemyQueen == enemyBB \cap board.PieceBB[QueenBB]
      enemyKing == enemyBB \cap board.PieceBB[KingBB]
      enemyKnights == enemyBB \cap board.PieceBB[KnightBB]
      enemyPawns == enemyBB \cap board.PieceBB[PawnBB]
      squarePos == getLSBPos(squareBB)
      intercardinalRays == genIntercardianlMovesBB(squareBB, enemyBB \cup usBB)
      cardinalRaysRays == genCardianlMovesBB(squareBB, enemyBB \cup usBB)
  IN (intercardinalRays \cap (enemyBishop \cup enemyQueen))
       \cup (cardinalRaysRays \cap (enemyRook \cup enemyQueen))
       \cup (KnightMoves[squarePos] \cap enemyKnights)
       \cup (KingMoves[squarePos] \cap enemyKing)
       \cup (IF enemyColor = WhiteBB
             THEN BlackPawnAttacks[squarePos] \cap enemyPawns
             ELSE WhitePawnAttacks[squarePos] \cap enemyPawns)

squareIsAttacked(board, enemyColor, squareBB, usBB) ==
  LET enemyBB == board.PieceBB[enemyColor]
      enemyBishop == enemyBB \cap board.PieceBB[BishopBB]
      enemyRook == enemyBB \cap board.PieceBB[RookBB]
      enemyQueen == enemyBB \cap board.PieceBB[QueenBB]
      enemyKnights == enemyBB \cap board.PieceBB[KnightBB]
      enemyKing == enemyBB \cap board.PieceBB[KingBB]
      enemyPawns == enemyBB \cap board.PieceBB[PawnBB]
      squarePos == getLSBPos(squareBB)
  IN \/ KnightMoves[squarePos] \cap enemyKnights # {}
     \/ KingMoves[squarePos] \cap enemyKing # {}
     \/ enemyColor = WhiteBB /\ BlackPawnAttacks[squarePos] \cap enemyPawns # {}
     \/ enemyColor = BlackBB /\ WhitePawnAttacks[squarePos] \cap enemyPawns # {}
     \/ genIntercardianlMovesBB(squareBB, enemyBB \cup usBB)
          \cap (enemyBishop \cup enemyQueen) # {}
     \/ genCardianlMovesBB(squareBB, enemyBB \cup usBB) \cap (enemyRook \cup enemyQueen) # {}

\* Board.InCheck
InCheck(board) ==
  IF board.WhiteToMove
  THEN squareIsAttacked(board, BlackBB, board.PieceBB[KingBB] \cap board.PieceBB[WhiteBB],
                        board.PieceBB[WhiteBB])
  ELSE squareIsAttacked(board, WhiteBB, board.PieceBB[KingBB] \cap board.PieceBB[BlackBB],
                        board.PieceBB[BlackBB])

(***************************************************************************)
(* Move generation.  A generator yields the moves it appends, in order.    *)
(***************************************************************************)
RECURSIVE Flatten(_)
Flatten(ss) == IF ss = <<>> THEN <<>> ELSE Head(ss) \o Flatten(Tail(ss))

makePromotionMoves(from, to) ==
  << MakeMove(from, to, KnightPromotion), MakeMove(from, to, BishopPromotion),
     MakeMove(from, to, RookPromotion), MakeMove(from, to, QueenPromotion) >>

\* genMovesFromBB, and the inner loop of the knight, bishop and rook generators
genMovesFromBB(from, movesBB, enemyBB) ==
  LET tos == popLSBOrder(movesBB) IN
  [i \in 1..Len(tos) |->
     MakeMove(from, tos[i], IF tos[i] \in enemyBB THEN Attack ELSE Quiet)]

genKnightMoves(knightsBB, enemyBB, usBB) ==
  LET froms == popLSBOrder(knightsBB) IN
  Flatten([i \in 1..Len(froms) |->
             genMovesFromBB(froms[i], KnightMoves[froms[i]] \ usBB, enemyBB)])

genBishopMoves(bishopsBB, enemyBB, usBB) ==
  LET froms == popLSBOrder(bishopsBB) IN
  Flatten([i \in 1..Len(froms) |->
             genMovesFromBB(froms[i],
                            genIntercardianlMovesBB({froms[i]}, enemyBB \cup usBB) \ usBB,
                            enemyBB)])

genRookMoves(rooksBB, enemyBB, usBB) ==
  LET froms == popLSBOrder(rooksBB) IN
  Flatten([i \in 1..Len(froms) |->
             genMovesFromBB(froms[i],
                            genCardianlMovesBB({froms[i]}, enemyBB \cup usBB) \ usBB,
                            enemyBB)])

genQueenMoves(queensBB, enemyBB, usBB) ==
  genBishopMoves(queensBB, enemyBB, usBB) \o genRookMoves(queensBB, enemyBB, usBB)

\* a buggy variant: the king may step onto an attacked square
genKingMoves_NoAttackTest(board, enemyColor, kingBB, usBB) ==
  genMovesFromBB(getLSBPos(kingBB), KingMoves[getLSBPos(kingBB)] \ usBB,
                 board.PieceBB[enemyColor])

genKingMoves(board, enemyColor, kingBB, usBB) ==
  LET from == getLSBPos(kingBB)
      enemyBB == board.PieceBB[enemyColor]
      safe == { to \in KingMoves[from] \ usBB :
                  ~squareIsAttacked(board, enemyColor, {to}, usBB) }
  IN genMovesFromBB(from, safe, enemyBB)

genCastlingMoves(board, enemyColor, usBB) ==
  LET allPieces == board.PieceBB[enemyColor] \cup usBB
      free(between, a, b) ==
        /\ allPieces \cap between = {}
        /\ ~squareIsAttacked(board, enemyColor, setSingleBit(a), usBB)
        /\ ~squareIsAttacked(board, enemyColor, setSingleBit(b), usBB)
  IN IF board.WhiteToMove
     THEN (IF HasRight(board.CastlingRights, WhiteKingside) /\ free(F1_G1, 5, 6)
           THEN <<MakeMove(4, 6, CastleWKS)>> ELSE <<>>)
          \o (IF HasRight(board.CastlingRights, WhiteQueenside) /\ free(B1_C1_D1, 2, 3)
              THEN <<MakeMove(4, 2, CastleWQS)>> ELSE <<>>)
     ELSE (IF HasRight(board.CastlingRights, BlackKingside) /\ free(F8_G8, 61, 62)
           THEN <<MakeMove(60, 62, CastleBKS)>> ELSE <<>>)
          \o (IF HasRight(board.CastlingRights, BlackQueenside) /\ free(B8_C8_D8, 58, 59)
              THEN <<MakeMove(60, 58, CastleBQS)>> ELSE <<>>)

(***************************************************************************)
(* Pawn moves.  The en-passant test makes the capture on the board, looks  *)
(* whether the king is attacked and takes the capture back, so the pawn    *)
(* generators yield the board along with the moves.                        *)
(***************************************************************************)
\* a buggy variant: the en-passant capture is never tested
epCaptureIsSafe_NoTest(board, enemyColor, ourKing, usColor) == TRUE

\* on the board with the capture made: is our king left alone
epCaptureIsSafe(board, enemyColor, ourKing, usColor) ==
  ~squareIsAttacked(board, enemyColor, ourKing, board.PieceBB[usColor])

\* the push targets of one pawn
pawnPushBB(white, from, occupied) ==
  LET pawnOnePush == (IF white THEN WhitePawnPushes[from] ELSE BlackPawnPushes[from])
                       \ occupied
      second == IF white
                THEN { s + 8 : s \in pawnOnePush \cap MaskRank[Rank3] }
                ELSE { s - 8 : s \in pawnOnePush \cap MaskRank[Rank6] }
  IN pawnOnePush \cup (second \ occupied)

isLastRank(white, to) == IF white THEN to >= 56 /\ to <= 63 ELSE to >= 0 /\ to <= 7

pawnPushMoves(white, from, occupied) ==
  LET tos == popLSBOrder(pawnPushBB(white, from, occupied)) IN
  Flatten([i \in 1..Len(tos) |->
             IF isLastRank(white, tos[i]) THEN makePromotionMoves(from, tos[i])
             ELSE <<MakeMove(from, tos[i], Quiet)>>])

\* moves, then the moves of rest; the board is the one rest leaves
joinMoves(moves, rest) == [board |-> rest.board, moves |-> moves \o rest.moves]

\* the en-passant branch, on the board `made` with the capture made: the move
\* is kept when the king is left alone, and the capture is taken back
pawnAttackEP(made, white, from, to, ourKing) ==
  [board |-> putPiece(movePiece(made, to, from), PawnBB,
                      IF white THEN BlackBB ELSE WhiteBB,
                      IF white THEN to - 8 ELSE to + 8),
   moves |-> IF epCaptureIsSafe(made, IF white THEN BlackBB ELSE WhiteBB, ourKing,
                                IF white THEN WhiteBB ELSE BlackBB)
             THEN <<MakeMove(from, to, AttackEP)>> ELSE <<>>]

\* one turn of the loop over the attack targets of a pawn
pawnAttackStep(board, white, from, to, enemyBB, epSq, ourKing) ==
  IF to = epSq
  THEN pawnAttackEP(removePiece(movePiece(board, from, to),
                                IF white THEN to - 8 ELSE to + 8),
                    white, from, to, ourKing)
  ELSE IF to \in enemyBB
  THEN [board |-> board,
        moves |-> IF isLastRank(white, to) THEN makePromotionMoves(from, to)
                  ELSE <<MakeMove(from, to, Attack)>>]
  ELSE [board |-> board, moves |-> <<>>]

\* the loop over the attack targets of one pawn
RECURSIVE pawnAttackLoop(_, _, _, _, _, _, _)
RECURSIVE pawnAttackRest(_, _, _, _, _, _, _)
pawnAttackLoop(board, white, from, tos, enemyBB, epSq, ourKing) ==
  IF tos = <<>> THEN [board |-> board, moves |-> <<>>]
  ELSE pawnAttackRest(pawnAttackStep(board, white, from, Head(tos), enemyBB, epSq, ourKing),
                      white, from, Tail(tos), enemyBB, epSq, ourKing)

pawnAttackRest(step, white, from, tos, enemyBB, epSq, ourKing) ==
  joinMoves(step.moves,
            pawnAttackLoop(step.board, white, from, tos, enemyBB, epSq, ourKing))

\* the loop over the pawns
RECURSIVE pawnLoop(_, _, _, _, _, _, _)
RECURSIVE pawnLoopRest(_, _, _, _, _, _, _, _)
pawnLoop(board, white, froms, enemyBB, usBB, epSq, ourKing) ==
  IF froms = <<>> THEN [board |-> board, moves |-> <<>>]
  ELSE pawnLoopRest(pawnAttackLoop(board, white, Head(froms),
                                   popLSBOrder(IF white THEN WhitePawnAttacks[Head(froms)]
                                               ELSE BlackPawnAttacks[Head(froms)]),
                                   enemyBB, epSq, ourKing),
                    white, Head(froms), Tail(froms), enemyBB, usBB, epSq, ourKing)

pawnLoopRest(attacks, white, from, froms, enemyBB, usBB, epSq, ourKing) ==
  joinMoves(pawnPushMoves(white, from, usBB \cup enemyBB) \o attacks.moves,
            pawnLoop(attacks.board, white, froms, enemyBB, usBB, epSq, ourKing))

genWhitePawnMoves(board, pawnsBB, enemyBB, usBB, epSq) ==
  pawnLoop(board, TRUE, popLSBOrder(pawnsBB), enemyBB, usBB, epSq,
           board.PieceBB[KingBB] \cap board.PieceBB[WhiteBB])

genBlackPawnMoves(board, pawnsBB, enemyBB, usBB, epSq) ==
  pawnLoop(board, FALSE, popLSBOrder(pawnsBB), enemyBB, usBB, epSq,
           board.PieceBB[KingBB] \cap board.PieceBB[BlackBB])

genPawnMoves(board, pawnsBB, enemyBB, usBB) ==
  IF board.WhiteToMove
  THEN genWhitePawnMoves(board, pawnsBB, enemyBB, usBB, board.EPSquare)
  ELSE genBlackPawnMoves(board, pawnsBB, enemyBB, usBB, board.EPSquare)

(***************************************************************************)
(* Pinned pieces.                                                          *)
(***************************************************************************)
\* the enemy sliders that see the king when our own pieces are taken away
pinnersOf(board, enemyColor, kingBB) ==
  LET enemyBB == board.PieceBB[enemyColor]
      enemyBishops == enemyBB \cap board.PieceBB[BishopBB]
      enemyRooks == enemyBB \cap board.PieceBB[RookBB]
      enemyQueens == enemyBB \cap board.PieceBB[QueenBB]
  IN (genIntercardianlMovesBB(kingBB, enemyBB) \cap (enemyBishops \cup enemyQueens))
       \cup (genCardianlMovesBB(kingBB, enemyBB) \cap (enemyRooks \cup enemyQueens))

\* the moves of the piece pinned by the pinner on pinnerPos
pinnedPieceMoves(board, enemyColor, usColor, kingPos, pinnerPos, possiblyPinnedBB) ==
  LET enemyBB == board.PieceBB[enemyColor]
      usBB == board.PieceBB[usColor]
      pinnedPos == getLSBPos(possiblyPinnedBB)
      pinnerType == GetPieceType(board.Pieces[pinnerPos])
      pinnedType == GetPieceType(board.Pieces[pinnedPos])
      pinnerRayDirection == LinesBetweenDirections[kingPos][pinnerPos]
      rayBetween == LinesBewteen[kingPos][pinnerPos] \ possiblyPinnedBB
      pawnAttacks == IF usColor = WhiteBB THEN WhitePawnAttacks[pinnedPos]
                     ELSE BlackPawnAttacks[pinnedPos]
  IN IF \/ pinnerType = BishopBB /\ pinnedType = BishopBB
        \/ pinnerType = RookBB /\ pinnedType = RookBB
        \/ pinnerType = QueenBB /\ pinnedType = QueenBB
        \/ (pinnerType = BishopBB \/ pinnerType = RookBB) /\ pinnedType = QueenBB
        \/ pinnerType = QueenBB /\ pinnedType = BishopBB
             /\ directionIsIntercardinal(pinnerRayDirection)
        \/ pinnerType = QueenBB /\ pinnedType = RookBB
             /\ directionIsCardinal(pinnerRayDirection)
     THEN genMovesFromBB(pinnedPos, rayBetween, enemyBB)
     ELSE IF (pinnerType = RookBB \/ pinnerType = QueenBB) /\ pinnedType = PawnBB
               /\ directionIsNorthOrSouth(pinnerRayDirection)
     THEN genMovesFromBB(pinnedPos, pawnPushBB(usColor = WhiteBB, pinnedPos, enemyBB \cup usBB),
                         {})
     ELSE IF (pinnerType = BishopBB \/ pinnerType = QueenBB) /\ pinnedType = PawnBB
               /\ directionIsIntercardinal(pinnerRayDirection)
     THEN IF pinnerPos \in pawnAttacks
          THEN IF \/ usColor = WhiteBB /\ pinnerPos >= 56 /\ pinnerPos <= 63
                  \/ usColor = BlackBB /\ pinnerPos >= 0 /\ pinnerPos <= 7
               THEN makePromotionMoves(pinnedPos, pinnerPos)
               ELSE <<MakeMove(pinnedPos, pinnerPos, Attack)>>
          ELSE <<>>
     ELSE <<>>

\* the pieces of ours between the king and the pinner
pinnedBy(usBB, kingPos, pinnerPos) == LinesBewteen[kingPos][pinnerPos] \cap usBB

\* the loop of genPinnedPiecesMoves over the pinners
pinnedLoop(board, enemyColor, usColor, kingPos, pinners) ==
  [pinnedBB |-> UNION { pinnedBy(board.PieceBB[usColor], kingPos, pinners[i]) :
                          i \in { j \in 1..Len(pinners) :
                                    Cardinality(pinnedBy(board.PieceBB[usColor], kingPos,
                                                         pinners[j])) = 1 } },
   moves |-> Flatten([i \in 1..Len(pinners) |->
               IF Cardinality(pinnedBy(board.PieceBB[usColor], kingPos, pinners[i])) = 1
               THEN pinnedPieceMoves(board, enemyColor, usColor, kingPos, pinners[i],
                                     pinnedBy(board.PieceBB[usColor], kingPos, pinners[i]))
               ELSE <<>>])]

\* yields the pinned pieces and the moves they have
genPinnedPiecesMoves(board, enemyColor, usColor, kingBB) ==
  pinnedLoop(board, enemyColor, usColor, getLSBPos(kingBB),
             popLSBOrder(pinnersOf(board, enemyColor, kingBB)))

(***************************************************************************)
(* Check evasion.                                                          *)
(***************************************************************************)
\* the moves of the pieces in protectors, other than king and pawns, to sqPos
protectorsToMoves(board, protectors, sqPos, moveType) ==
  [i \in 1..Len(protectors) |-> MakeMove(protectors[i], sqPos, moveType)]

\* captures of and interpositions on sqPos by our pieces other than king and pawns
protectorMoves(board, usColor, enemyBB, notPinnedMask, sqPos, moveType) ==
  protectorsToMoves(board,
                    SelectSeq(popLSBOrder(attackersOfSquare(board, usColor, {sqPos}, enemyBB)
                                            \cap notPinnedMask),
                              LAMBDA p : GetPieceType(board.Pieces[p]) # KingBB
                                         /\ GetPieceType(board.Pieces[p]) # PawnBB),
                    sqPos, moveType)

\* the evasions of a single check other than king moves, given the pawn moves
evasionsOfChecker(board, pawnMoves, usColor, enemyBB, notPinnedMask, kingPos, checkerPos) ==
  IF GetPieceType(board.Pieces[checkerPos]) = KnightBB
  THEN SelectSeq(pawnMoves,
                 LAMBDA m : getMoveType(m) = Attack /\ getMoveToSq(m) = checkerPos)
         \o protectorMoves(board, usColor, enemyBB, notPinnedMask, checkerPos, Attack)
  ELSE SelectSeq(pawnMoves,
                 LAMBDA m :
                   \/ getMoveToSq(m) \in LinesBewteen[kingPos][checkerPos]
                   \/ getMoveType(m) = AttackEP
                        /\ epCapturePos(usColor, getMoveToSq(m)) = checkerPos
                   \/ getMoveType(m) = Attack /\ getMoveToSq(m) = checkerPos)
         \o Flatten([sq \in DOMAIN popLSBOrder(LinesBewteen[kingPos][checkerPos]) |->
              protectorMoves(board, usColor, enemyBB, notPinnedMask,
                             popLSBOrder(LinesBewteen[kingPos][checkerPos])[sq],
                             IF popLSBOrder(LinesBewteen[kingPos][checkerPos])[sq] = checkerPos
                             THEN Attack ELSE Quiet)])

\* genCheckEvasionMoves once the pawn moves are generated
evasionMoves(pawns, enemyColor, usColor, kingBB, checkersBB, notPinnedMask) ==
  [board |-> pawns.board,
   moves |-> genKingMoves(pawns.board, enemyColor, kingBB,
                          pawns.board.PieceBB[usColor] \ kingBB)
               \o (IF Cardinality(checkersBB) > 1 THEN <<>>
                   ELSE evasionsOfChecker(pawns.board, pawns.moves, usColor,
                                          pawns.board.PieceBB[enemyColor], notPinnedMask,
                                          getLSBPos(kingBB), getLSBPos(checkersBB)))]

genCheckEvasionMoves(board, enemyColor, usColor, kingBB, checkersBB, notPinnedMask) ==
  evasionMoves(genPawnMoves(board,
                            board.PieceBB[PawnBB] \cap board.PieceBB[usColor]
                              \cap notPinnedMask,
                            board.PieceBB[enemyColor], board.PieceBB[usColor]),
               enemyColor, usColor, kingBB, checkersBB, notPinnedMask)

(***************************************************************************)
(* GenLegalMoves: yields the move list and the board it leaves.            *)
(***************************************************************************)
\* the moves of the pieces on fromBB of our colour, pawns and king apart
genPieceMoves(board, fromBB, enemyBB, usBB) ==
  genKnightMoves(board.PieceBB[KnightBB] \cap fromBB, enemyBB, usBB)
    \o genBishopMoves(board.PieceBB[BishopBB] \cap fromBB, enemyBB, usBB)
    \o genRookMoves(board.PieceBB[RookBB] \cap fromBB, enemyBB, usBB)
    \o genQueenMoves(board.PieceBB[QueenBB] \cap fromBB, enemyBB, usBB)

\* GenLegalMoves of a side not in check, once the pawn moves are generated
movesNotInCheck(pawns, pinnedMoves, notPinnedMask, enemyColor, usColor) ==
  [board |-> pawns.board,
   moves |-> pinnedMoves \o pawns.moves
               \o genPieceMoves(pawns.board,
                                pawns.board.PieceBB[usColor] \cap notPinnedMask,
                                pawns.board.PieceBB[enemyColor],
                                pawns.board.PieceBB[usColor])
               \o genKingMoves(pawns.board, enemyColor,
                               pawns.board.PieceBB[KingBB] \cap pawns.board.PieceBB[usColor],
                               pawns.board.PieceBB[usColor])
               \o genCastlingMoves(pawns.board, enemyColor, pawns.board.PieceBB[usColor])]

\* GenLegalMoves once the pinned pieces are found
genWithPins(board, pinned, enemyColor, usColor, kingBB, checkersBB) ==
  IF Cardinality(checkersBB) = 0
  THEN movesNotInCheck(genPawnMoves(board,
                                    board.PieceBB[PawnBB] \cap board.PieceBB[usColor]
                                      \cap (Squares \ pinned.pinnedBB),
                                    board.PieceBB[enemyColor], board.PieceBB[usColor]),
                       pinned.moves, Squares \ pinned.pinnedBB, enemyColor, usColor)
  ELSE genCheckEvasionMoves(board, enemyColor, usColor, kingBB, checkersBB,
                            Squares \ pinned.pinnedBB)

\* GenLegalMoves for the side usColor to move
genForSide(board, enemyColor, usColor, kingBB) ==
  genWithPins(board, genPinnedPiecesMoves(board, enemyColor, usColor, kingBB),
              enemyColor, usColor, kingBB,
              attackersOfSquare(board, enemyColor, kingBB, board.PieceBB[usColor]))

GenLegalMoves(board) ==
  genForSide(board, enemyColorOf(board), usColorOf(board),
             board.PieceBB[KingBB] \cap board.PieceBB[usColorOf(board)])

(***************************************************************************)
(* Text.  A string is a sequence of one-character strings; Ord gives the   *)
(* byte of a character.                                                    *)
(***************************************************************************)
Ord(c) ==
  CASE c = "-" -> 45 [] c = "/" -> 47
    [] c = "0" -> 48 [] c = "1" -> 49 [] c = "2" -> 50 [] c = "3" -> 51 [] c = "4" -> 52
    [] c = "5" -> 53 [] c = "6" -> 54 [] c = "7" -> 55 [] c = "8" -> 56 [] c = "9" -> 57
    [] c = "a" -> 97 [] c = "b" -> 98 [] c = "c" -> 99 [] c = "d" -> 100 [] c = "e" -> 101
    [] c = "f" -> 102 [] c = "g" -> 103 [] c = "h" -> 104
    [] c = "k" -> 107 [] c = "n" -> 110 [] c = "p" -> 112 [] c = "q" -> 113
    [] c = "r" -> 114 [] c = "w" -> 119
    [] c = "B" -> 66 [] c = "K" -> 75 [] c = "N" -> 78 [] c = "P" -> 80 [] c = "Q" -> 81
    [] c = "R" -> 82

Chr(n) ==
  CHOOSE c \in {"-", "/", "0", "1", "2", "3", "4", "5", "6", "7", "8", "9",
                "a", "b", "c", "d", "e", "f", "g", "h"} : Ord(c) = n

\* r - '0' on bytes
charToDigit(r) == (Ord(r) - 48) % 256

CoordinateToPos(coordinate) ==
  LET file == (Ord(coordinate[1]) - 97) % 256
      rank == charToDigit(coordinate[2]) - 1
  IN rank * 8 + file

PosToCoordinate(pos) == << Chr(97 + (pos % 8)), Chr(48 + (pos \div 8) + 1) >>

(***************************************************************************)
(* LoadFEN.  A FEN is the sequence of its whitespace-separated fields.     *)
(***************************************************************************)
\* the mailbox byte a piece letter of the placement field stands for
fenPiece(char) ==
  CASE char = "p" -> Pawn + Black [] char = "n" -> Knight + Black
    [] char = "b" -> Bishop + Black [] char = "r" -> Rook + Black
    [] char = "q" -> Queen + Black [] char = "k" -> King + Black
    [] char = "P" -> Pawn + White [] char = "N" -> Knight + White
    [] char = "B" -> Bishop + White [] char = "R" -> Rook + White
    [] char = "Q" -> Queen + White [] char = "K" -> King + White

\* the loop of LoadFEN over the placement field
RECURSIVE fenPlace(_, _, _, _)
fenPlace(pieceBB, pieces, chars, square) ==
  IF chars = <<>> THEN [PieceBB |-> pieceBB, Pieces |-> pieces]
  ELSE
    LET char == Head(chars) IN
    IF char \in {"p", "n", "b", "r", "q", "k", "P", "N", "B", "R", "Q", "K"}
    THEN LET piece == fenPiece(char)
             bb1 == [pieceBB EXCEPT ![GetPieceType(piece)] = setBit(@, square)]
             bb2 == [bb1 EXCEPT ![getPieceColor(piece)] = setBit(@, square)]
         IN fenPlace(bb2, [pieces EXCEPT ![square] = piece], Tail(chars), square + 1)
    ELSE IF char = "/" THEN fenPlace(pieceBB, pieces, Tail(chars), square - 16)
    ELSE IF char \in {"1", "2", "3", "4", "5", "6", "7", "8"}
    THEN fenPlace(pieceBB, pieces, Tail(chars), square + charToDigit(char))
    ELSE fenPlace(pieceBB, pieces, Tail(chars), square)

Contains(str, char) == \E i \in 1..Len(str) : str[i] = char

\* LoadFEN panics unless the string has six fields
LoadFENPanics(fen) == Len(fen) # 6

\* LoadFEN: the hash is computed from the loaded position
loadHash(board) == [board EXCEPT !.Hash = initZobristHash(board)]

LoadFEN(board, fen) ==
  LET pieces == fen[1]
      turn == fen[2]
      castling == fen[3]
      epSq == fen[4]
      halfMove == fen[5]
      fullMove == fen[6]
      placed == fenPlace(ZeroPieceBB, ZeroPieces, pieces, 56)
      r1 == IF castling # <<"-">> /\ Contains(castling, "K") THEN WhiteKingside ELSE 0
      r2 == IF castling # <<"-">> /\ Contains(castling, "Q") THEN WhiteQueenside ELSE 0
      r3 == IF castling # <<"-">> /\ Contains(castling, "k") THEN BlackKingside ELSE 0
      r4 == IF castling # <<"-">> /\ Contains(castling, "q") THEN BlackQueenside ELSE 0
      b1 == [board EXCEPT
               !.PieceBB = placed.PieceBB,
               !.Pieces = placed.Pieces,
               !.WhiteToMove = turn # <<"b">>,
               !.CastlingRights = r1 + r2 + r3 + r4,
               !.EPSquare = IF epSq # <<"-">> THEN CoordinateToPos(epSq) ELSE NoEPSquare,
               !.undoInfoList = EmptyUndoInfoList,
               !.gamePly = -1,
               !.HalfMoveClock = charToDigit(halfMove[1]),
               !.FullMoveCounter = charToDigit(fullMove[1])]
  IN loadHash(b1)

(***************************************************************************)
(* Moves in coordinate text.                                               *)
(***************************************************************************)
ConvertMoveToLongAlgebraicNotation(move) ==
  PosToCoordinate(getMoveFromSq(move)) \o PosToCoordinate(getMoveToSq(move))
    \o (CASE getMoveType(move) = KnightPromotion -> <<"n">>
          [] getMoveType(move) = BishopPromotion -> <<"b">>
          [] getMoveType(move) = RookPromotion -> <<"r">>
          [] getMoveType(move) = QueenPromotion -> <<"q">>
          [] OTHER -> <<>>)

\* the kind of move makeMoveFromCoords reads off the text and the board
coordsMoveType(board, move, movePieceType, toPos, useChess960Castling) ==
  IF Len(move) = 5
  THEN (IF move[Len(move)] = "n" THEN KnightPromotion
        ELSE IF move[Len(move)] = "b" THEN BishopPromotion
        ELSE IF move[Len(move)] = "r" THEN RookPromotion
        ELSE IF move[Len(move)] = "q" THEN QueenPromotion
        ELSE 0)
  ELSE IF move = <<"e", "1", "g", "1">> /\ movePieceType = KingBB /\ ~useChess960Castling
  THEN CastleWKS
  ELSE IF move = <<"e", "1", "c", "1">> /\ movePieceType = KingBB /\ ~useChess960Castling
  THEN CastleWQS
  ELSE IF move = <<"e", "8", "g", "8">> /\ movePieceType = KingBB /\ ~useChess960Castling
  THEN CastleBKS
  ELSE IF move = <<"e", "8", "c", "8">> /\ movePieceType = KingBB /\ ~useChess960Castling
  THEN CastleBQS
  ELSE IF move = <<"e", "1", "h", "1">> /\ movePieceType = KingBB /\ useChess960Castling
  THEN CastleWKS
  ELSE IF move = <<"e", "1", "a", "1">> /\ movePieceType = KingBB /\ useChess960Castling
  THEN CastleWQS
  ELSE IF move = <<"e", "8", "h", "8">> /\ movePieceType = KingBB /\ useChess960Castling
  THEN CastleBKS
  ELSE IF move = <<"e", "8", "a", "8">> /\ movePieceType = KingBB /\ useChess960Castling
  THEN CastleBQS
  ELSE IF toPos = board.EPSquare THEN AttackEP
  ELSE IF board.Pieces[toPos] = NoPiece THEN Quiet
  ELSE Attack

\* makeMoveFromCoords with the two squares read
coordsMove(board, move, fromPos, toPos, useChess960Castling) ==
  MakeMove(fromPos, toPos,
           coordsMoveType(board, move, GetPieceType(board.Pieces[fromPos]), toPos,
                          useChess960Castling))

makeMoveFromCoords(board, move, useChess960Castling) ==
  coordsMove(board, move, CoordinateToPos(SubSeq(move, 1, 2)),
             CoordinateToPos(SubSeq(move, 3, 4)), useChess960Castling)

\* ConvertLongAlgebraicNotationToMove
ConvertLongAlgebraicNotationToMove(board, moveAsString) ==
  makeMoveFromCoords(board, moveAsString, FALSE)

(***************************************************************************)
(* Positions the driver loads.                                             *)
(***************************************************************************)
\* 4k2r/8/8/8/8/8/8/4K2R b Kk - 0 1
\* both sides may castle kingside; the rooks face each other on the h-file
FenCastleRooks ==
  << <<"4", "k", "2", "r", "/", "8", "/", "8", "/", "8", "/", "8", "/", "8", "/", "8", "/", "4", "K", "2", "R">>, <<"b">>, <<"K", "k">>, <<"-">>, <<"0">>, <<"1">> >>

\* 8/8/8/KPp4r/8/8/8/4k3 w - c6 0 1
\* capturing en passant would open the fifth rank to the rook
FenEPTrap ==
  << <<"8", "/", "8", "/", "8", "/", "K", "P", "p", "4", "r", "/", "8", "/", "8", "/", "8", "/", "4", "k", "3">>, <<"w">>, <<"-">>, <<"c", "6">>, <<"0">>, <<"1">> >>

\* 4k3/8/8/8/3p4/8/4P3/4K3 w - - 0 1
\* a double push of the e-pawn allows a capture en passant
FenEPLegal ==
  << <<"4", "k", "3", "/", "8", "/", "8", "/", "8", "/", "3", "p", "4", "/", "8", "/", "4", "P", "3", "/", "4", "K", "3">>, <<"w">>, <<"-">>, <<"-">>, <<"0">>, <<"1">> >>

\* 7b/5p2/8/4P3/8/8/1K6/7k b - - 0 1
\* the e-pawn is pinned on the long diagonal; a double push of the f-pawn passes it
FenEPPinned ==
  << <<"7", "b", "/", "5", "p", "2", "/", "8", "/", "4", "P", "3", "/", "8", "/", "8", "/", "1", "K", "6", "/", "7", "k">>, <<"b">>, <<"-">>, <<"-">>, <<"0">>, <<"1">> >>

\* 2n5/1P6/3K4/8/8/8/8/7k w - - 0 1
\* a knight gives check and a pawn can capture it while promoting
FenKnightCheck ==
  << <<"2", "n", "5", "/", "1", "P", "6", "/", "3", "K", "4", "/", "8", "/", "8", "/", "8", "/", "8", "/", "7", "k">>, <<"w">>, <<"-">>, <<"-">>, <<"0">>, <<"1">> >>

\* 1r5k/P7/8/8/8/8/8/K7 w - - 0 1
\* a pawn can promote by pushing or by capturing
FenPromotion ==
  << <<"1", "r", "5", "k", "/", "P", "7", "/", "8", "/", "8", "/", "8", "/", "8", "/", "8", "/", "K", "7">>, <<"w">>, <<"-">>, <<"-">>, <<"0">>, <<"1">> >>

\* 4k3/8/8/8/8/8/3RB3/r3K3 w - - 0 1
\* a rook gives check along the first rank
FenSliderCheck ==
  << <<"4", "k", "3", "/", "8", "/", "8", "/", "8", "/", "8", "/", "8", "/", "3", "R", "B", "3", "/", "r", "3", "K", "3">>, <<"w">>, <<"-">>, <<"-">>, <<"0">>, <<"1">> >>

\* r3k3/8/8/8/8/8/8/R3K3 w Qq - 0 1
\* both sides may castle queenside
FenQueenside ==
  << <<"r", "3", "k", "3", "/", "8", "/", "8", "/", "8", "/", "8", "/", "8", "/", "8", "/", "R", "3", "K", "3">>, <<"w">>, <<"Q", "q">>, <<"-">>, <<"0">>, <<"1">> >>

\* 7k/5Q2/6K1/8/8/8/8/8 b - - 0 1
\* the side to move is stalemated
FenStalemate ==
  << <<"7", "k", "/", "5", "Q", "2", "/", "6", "K", "1", "/", "8", "/", "8", "/", "8", "/", "8", "/", "8">>, <<"b">>, <<"-">>, <<"-">>, <<"0">>, <<"1">> >>

\* 8/8/8/1k6/1p6/8/P7/K7 w - - 0 1
\* a double push of the a-pawn gives check and can be captured en passant
FenEPEvasion ==
  << <<"8", "/", "8", "/", "8", "/", "1", "k", "6", "/", "1", "p", "6", "/", "8", "/", "P", "7", "/", "K", "7">>, <<"w">>, <<"-">>, <<"-">>, <<"0">>, <<"1">> >>

FENS ==
  { FenCastleRooks, FenEPTrap, FenEPLegal, FenEPPinned, FenKnightCheck,
    FenPromotion, FenSliderCheck, FenQueenside, FenEPEvasion }

(***************************************************************************)
(* State.  board is the Board of the Searcher; moves is the caller's move  *)
(* list filled by GenLegalMoves; movesMade is the caller's stack of moves  *)
(* it made with the state saved; lastOp names the operation called last.   *)
(* StopSearch is the flag of the Searcher.  The driver starts a goroutine  *)
(* for every go command: searches counts them, and goroutine w has its     *)
(* position pc[w] and the locals of its call of Search; returned[w] is the *)
(* move its Search returned.  Kept of the call of Search that is running:  *)
(* events[w], the depths of the "info depth" lines it printed;             *)
(* completed[w], the number of calls of rootNegamax that returned;         *)
(* reported[w], the best move at the time of the last line; and           *)
(* stopSeen[w], whether a stop command arrived while an iteration of the   *)
(* call was running.  searcher holds the tables and counters of the        *)
(* Searcher, result what the call of the searcher made last returned, and  *)
(* calls the number of such calls made.                                    *)
(***************************************************************************)
VARIABLES board, moves, movesMade, lastOp,
          StopSearch, pc, timeLeft, depth, bestMove, bestScore, movesToMate,
          totalSearchTime, events, returned, searches, stopSeen, completed, reported,
          searcher, result, calls

boardVars == << board, moves, movesMade, lastOp >>
searchVars ==
  << StopSearch, pc, timeLeft, depth, bestMove, bestScore, movesToMate,
     totalSearchTime, events, returned, searches, stopSeen, completed, reported >>
treeVars == << searcher, result, calls >>
vars == << boardVars, searchVars, treeVars >>

Range(s) == { s[i] : i \in 1..Len(s) }

\* a position has been loaded
Loaded == board.PieceBB[KingBB] # {}

\* the goroutines of the go commands
Workers == 1..MaxSearches

\* the tables and counters of a Searcher after Init: the transposition
\* table, the killer moves of every depth and the history table are empty
ZeroTables ==
  [ttable |-> << >>,
   killerMoves |-> [d \in 0..(SearchDepth - 1) |-> <<NullMove, NullMove>>] @@ << >>,
   searchHistory |-> << >>,
   NodesExplored |-> 0,
   TTHits |-> 0]

\* no call of the searcher has been made
NoResult ==
  [op |-> "none", depthLeft |-> 0, alpha |-> 0, beta |-> 0, score |-> 0,
   bestMove |-> NullMove, ordered |-> << >>, scores |-> << >>, tried |-> << >>,
   events |-> << >>, peakPly |-> -1]

Init ==
  /\ board = ZeroBoard
  /\ moves = << >>
  /\ movesMade = << >>
  /\ lastOp = "new"
  /\ StopSearch = FALSE
  /\ pc = [w \in Workers |-> "idle"]
  /\ timeLeft = [w \in Workers |-> 0]
  /\ depth = [w \in Workers |-> 0]
  /\ bestMove = [w \in Workers |-> NullMove]
  /\ bestScore = [w \in Workers |-> 0]
  /\ movesToMate = [w \in Workers |-> 0]
  /\ totalSearchTime = [w \in Workers |-> 0]
  /\ events = [w \in Workers |-> << >>]
  /\ returned = [w \in Workers |-> NullMove]
  /\ searches = 0
  /\ stopSeen = [w \in Workers |-> FALSE]
  /\ completed = [w \in Workers |-> 0]
  /\ reported = [w \in Workers |-> NullMove]
  /\ searcher = ZeroTables
  /\ result = NoResult
  /\ calls = 0

\* Board.LoadFEN
LoadFENAct ==
  \E fen \in FENS :
    /\ ~LoadFENPanics(fen)
    /\ board' = LoadFEN(board, fen)
    /\ moves' = << >>
    /\ movesMade' = << >>
    /\ lastOp' = "LoadFEN"
    /\ UNCHANGED << searchVars, treeVars >>

\* GenLegalMoves(&board, &moves)
GenLegalMovesAct ==
  /\ Loaded
  /\ LET gen == GenLegalMoves(board)
     IN /\ board' = gen.board
        /\ moves' = gen.moves
  /\ lastOp' = "GenLegalMoves"
  /\ UNCHANGED << movesMade, searchVars, treeVars >>

\* board.DoMove(&move, true) with a move of the list
DoMoveAct ==
  \E i \in 1..Len(moves) :
    /\ board.HalfMoveCounter < MaxPly
    /\ ~DoMovePanics(board, moves[i])
    /\ board' = DoMove(board, moves[i], TRUE)
    /\ movesMade' = Append(movesMade, moves[i])
    /\ moves' = << >>
    /\ lastOp' = "DoMove"
    /\ UNCHANGED << searchVars, treeVars >>

\* board.UndoMove(&move) with the move made last
UndoMoveAct ==
  /\ movesMade # << >>
  /\ board' = UndoMove(board, movesMade[Len(movesMade)])
  /\ movesMade' = SubSeq(movesMade, 1, Len(movesMade) - 1)
  /\ moves' = << >>
  /\ lastOp' = "UndoMove"
  /\ UNCHANGED << searchVars, treeVars >>

\* the coordinate texts of the moves GenLegalMoves yields
LegalTexts(b) ==
  { ConvertMoveToLongAlgebraicNotation(m) : m \in Range(GenLegalMoves(b).moves) }

\* board.DoMoveFromCoords(move, false, false), as the driver applies the
\* moves of a game
DoMoveFromCoordsAct ==
  /\ Loaded
  /\ movesMade = << >>
  /\ board.HalfMoveCounter < MaxPly
  /\ \E text \in LegalTexts(board) :
       LET moveInt == makeMoveFromCoords(board, text, FALSE)
       IN /\ ~DoMovePanics(board, moveInt)
          /\ board' = DoMove(board, moveInt, FALSE)
  /\ moves' = << >>
  /\ lastOp' = "DoMoveFromCoords"
  /\ UNCHANGED << movesMade, searchVars, treeVars >>

Next ==
  \/ LoadFENAct
  \/ GenLegalMovesAct
  \/ DoMoveAct
  \/ UndoMoveAct
  \/ DoMoveFromCoordsAct

Spec == Init /\ [][Next]_vars

(***************************************************************************)
(* The search driver.  RunUCIProtocol reads commands and, for go, starts a *)
(* goroutine that runs goCommandResponse; stop sets the flag of the        *)
(* Searcher.  The flag is an unsynchronised word: it is modelled as a cell *)
(* whose writes are seen at once.  The opening book holds no move of the   *)
(* positions searched.  negamax is not unfolded: the score of each root    *)
(* move is any member of ScoreValues.  A child score lies strictly between *)
(* NegInf and PosInf (negamax is fail-hard in the window (-(PosInf-1),     *)
(* PosInf), a mate scores NegInf + SearchDepth - depth with depth >= 1,    *)
(* and NegInf itself is never returned).  The killer and history tables   *)
(* are taken to hold no entry for the root moves.  While rootNegamax runs  *)
(* the board is moved and restored; the model takes the call as one step.  *)
(***************************************************************************)
\* k7/8/2K5/8/8/8/8/8 b - - 0 1
\* the black king has the two moves a8a7 and a8b8
FenTwoMoves ==
  << <<"k", "7", "/", "8", "/", "2", "K", "5", "/", "8", "/", "8", "/", "8", "/", "8", "/", "8">>, <<"b">>, <<"-">>, <<"-">>, <<"0">>, <<"1">> >>

SearchFENS == { FenTwoMoves }

\* the scores rootNegamax gets for a root move: an even position and a mate
ScoreValues == { 0, PosInf - 3 }

\* the values of getTimeLeftInGame: under the time crunch or not
TimesLeft == { TimeThreshHoldForBulletPlay, TimeThreshHoldForBulletPlay + 1 }

\* the milliseconds one iteration takes
TimesTaken == { 0, TimePerMoveBullet }

\* Go's integer division truncates toward zero
GoDiv(a, b) == IF a >= 0 THEN a \div b ELSE -((-a) \div b)

getPieceValue(pieceType) ==
  CASE pieceType = KingBB -> KingValue
    [] pieceType = QueenBB -> QueenValue
    [] pieceType = RookBB -> RookValue
    [] pieceType = BishopBB -> BishopValue
    [] pieceType = KnightBB -> KnightValue
    [] pieceType = PawnBB -> PawnValue
    [] OTHER -> 0

\* the score orderMoves gives a move while the killer and history tables
\* hold no entry for it
moveScore(b, move) ==
  LET movePieceType == GetPieceType(b.Pieces[getMoveFromSq(move)])
      capturePieceType == GetPieceType(b.Pieces[getMoveToSq(move)])
      moveType == getMoveType(move)
  IN CASE moveType \in {Attack, AttackEP} ->
            getPieceValue(capturePieceType) - getPieceValue(movePieceType) + CaptureBonus
       [] moveType = KnightPromotion -> KnightValue + getPieceValue(capturePieceType)
       [] moveType = BishopPromotion -> BishopValue + getPieceValue(capturePieceType)
       [] moveType = RookPromotion -> RookValue + getPieceValue(capturePieceType)
       [] moveType = QueenPromotion -> QueenValue + getPieceValue(capturePieceType)
       [] OTHER -> 0

\* entries j and j + 1 of both lists swapped
swapped(ms, j) ==
  [list |-> [ms.list EXCEPT ![j] = ms.list[j + 1], ![j + 1] = ms.list[j]],
   scores |-> [ms.scores EXCEPT ![j] = ms.scores[j + 1], ![j + 1] = ms.scores[j]]]

\* the inner loop with <= for <: equal scores change places
RECURSIVE sortInner_SwapTies(_, _)
sortInner_SwapTies(ms, j) ==
  IF j < 2 THEN ms
  ELSE sortInner_SwapTies(IF ms.scores[j - 1] <= ms.scores[j] THEN swapped(ms, j - 1) ELSE ms, j - 1)

\* the inner loop of sortMoves: j runs from i + 1 down to 1 (here one more)
RECURSIVE sortInner(_, _)
sortInner(ms, j) ==
  IF j < 2 THEN ms
  ELSE sortInner(IF ms.scores[j - 1] < ms.scores[j] THEN swapped(ms, j - 1) ELSE ms, j - 1)

RECURSIVE sortOuter(_, _)
sortOuter(ms, i) ==
  IF i > Len(ms.list) - 1 THEN ms ELSE sortOuter(sortInner(ms, i + 1), i + 1)

sortMoves(list, scores) == sortOuter([list |-> list, scores |-> scores], 1).list

orderMoves(b, list) == sortMoves(list, [i \in 1..Len(list) |-> moveScore(b, list[i])])

\* the loop of rootNegamax over the ordered moves; scores[i] is the value of
\* -negamax for move i
RECURSIVE rootLoop(_, _, _, _, _, _)
rootLoop(list, scores, i, alpha, best, score) ==
  IF i > Len(list) THEN [bestMove |-> best, bestScore |-> score]
  ELSE IF scores[i] >= PosInf - 1
  THEN [bestMove |-> IF scores[i] > alpha THEN list[i] ELSE best, bestScore |-> scores[i]]
  ELSE IF scores[i] > alpha
  THEN rootLoop(list, scores, i + 1, scores[i], list[i], scores[i])
  ELSE rootLoop(list, scores, i + 1, alpha, best, scores[i])

\* the pairs rootNegamax may return for a position
rootResults(list) ==
  { rootLoop(list, scores, 1, NegInf, NullMove, NegInf) :
      scores \in [1..Len(list) -> ScoreValues] }

rootNegamax(b) == rootResults(orderMoves(b, GenLegalMoves(b).moves))

\* movesToMate after an iteration that scored bestScore
nextMovesToMate(old, score) ==
  IF score > PosInf - SearchDepth /\ score <= PosInf THEN GoDiv(PosInf - score, 2)
  ELSE IF score < NegInf + SearchDepth /\ score >= NegInf THEN GoDiv(NegInf - score, 2)
  ELSE old

\* a goroutine died of a panic, and the program with it
Panicked == \E w \in Workers : pc[w] = "panicked"

\* the position command: positionCommandResponse loads the position
PositionCmd ==
  /\ ~Panicked
  /\ \E fen \in SearchFENS :
       /\ ~LoadFENPanics(fen)
       /\ board' = LoadFEN(board, fen)
  /\ moves' = << >>
  /\ movesMade' = << >>
  /\ lastOp' = "LoadFEN"
  /\ UNCHANGED << searchVars, treeVars >>

\* the go command: a new goroutine runs goCommandResponse, which calls
\* Search with the time left; Search sets up its locals
GoCmd ==
  /\ ~Panicked
  /\ Loaded
  /\ searches < MaxSearches
  /\ \E t \in TimesLeft :
       timeLeft' = [timeLeft EXCEPT ![searches + 1] = t]
  /\ searches' = searches + 1
  /\ pc' = [pc EXCEPT ![searches + 1] = "loopTop"]
  /\ depth' = [depth EXCEPT ![searches + 1] = 1]
  /\ bestMove' = [bestMove EXCEPT ![searches + 1] = NullMove]
  /\ bestScore' = [bestScore EXCEPT ![searches + 1] = NegInf]
  /\ movesToMate' = [movesToMate EXCEPT ![searches + 1] = 0]
  /\ totalSearchTime' = [totalSearchTime EXCEPT ![searches + 1] = 0]
  /\ UNCHANGED << boardVars, treeVars, StopSearch, events, returned, stopSeen, completed, reported >>

\* the stop command
StopCmd ==
  /\ ~Panicked
  /\ StopSearch' = TRUE
  /\ stopSeen' = [w \in Workers |-> stopSeen[w] \/ pc[w] \in {"rootNegamax", "timeCheck"}]
  /\ UNCHANGED << boardVars, treeVars, pc, timeLeft, depth, bestMove, bestScore, movesToMate,
                  totalSearchTime, events, returned, searches, completed, reported >>

\* Search returns bestMove to goCommandResponse, which panics on NullMove
\* and prints the move otherwise; the locals of Search are gone, and with
\* the call over its record is cleared
searchReturns(w) ==
  /\ returned' = [returned EXCEPT ![w] = bestMove[w]]
  /\ pc' = [pc EXCEPT ![w] = IF bestMove[w] = NullMove THEN "panicked" ELSE "done"]
  /\ timeLeft' = [timeLeft EXCEPT ![w] = 0]
  /\ depth' = [depth EXCEPT ![w] = 0]
  /\ bestMove' = [bestMove EXCEPT ![w] = NullMove]
  /\ bestScore' = [bestScore EXCEPT ![w] = 0]
  /\ movesToMate' = [movesToMate EXCEPT ![w] = 0]
  /\ totalSearchTime' = [totalSearchTime EXCEPT ![w] = 0]
  /\ events' = [events EXCEPT ![w] = << >>]
  /\ stopSeen' = [stopSeen EXCEPT ![w] = FALSE]
  /\ completed' = [completed EXCEPT ![w] = 0]
  /\ reported' = [reported EXCEPT ![w] = NullMove]
  /\ UNCHANGED << boardVars, treeVars, searches >>

\* the loop of Search ends after depth SearchDepth
SearchLoopEnd ==
  \E w \in Workers :
    /\ ~Panicked
    /\ pc[w] = "loopTop"
    /\ depth[w] > SearchDepth
    /\ searchReturns(w)
    /\ UNCHANGED StopSearch

\* the loop of Search finds the flag set: it clears the flag and breaks
SearchStopped ==
  \E w \in Workers :
    /\ ~Panicked
    /\ pc[w] = "loopTop"
    /\ depth[w] <= SearchDepth
    /\ StopSearch
    /\ StopSearch' = FALSE
    /\ searchReturns(w)

\* the loop of Search starts the iteration of the next depth
SearchIterate ==
  \E w \in Workers :
    /\ ~Panicked
    /\ pc[w] = "loopTop"
    /\ depth[w] <= SearchDepth
    /\ ~StopSearch
    /\ pc' = [pc EXCEPT ![w] = "rootNegamax"]
    /\ UNCHANGED << boardVars, treeVars, StopSearch, timeLeft, depth, bestMove, bestScore, movesToMate,
                    totalSearchTime, events, returned, searches, stopSeen, completed, reported >>

\* rootNegamax returns and its time is added up
RootNegamax ==
  \E w \in Workers :
    /\ ~Panicked
    /\ pc[w] = "rootNegamax"
    /\ \E r \in rootNegamax(board) :
         /\ bestMove' = [bestMove EXCEPT ![w] = r.bestMove]
         /\ bestScore' = [bestScore EXCEPT ![w] = r.bestScore]
    /\ \E timeTaken \in TimesTaken :
         /\ totalSearchTime[w] + timeTaken <= MaxSearchTime
         /\ totalSearchTime' = [totalSearchTime EXCEPT ![w] = @ + timeTaken]
    /\ completed' = [completed EXCEPT ![w] = @ + 1]
    /\ pc' = [pc EXCEPT ![w] = "timeCheck"]
    /\ UNCHANGED << boardVars, treeVars, StopSearch, timeLeft, depth, movesToMate, events, returned,
                    searches, stopSeen, reported >>

\* under the time crunch the loop breaks once the time of a move is used up
TimeCrunchBreak ==
  \E w \in Workers :
    /\ ~Panicked
    /\ pc[w] = "timeCheck"
    /\ timeLeft[w] <= TimeThreshHoldForBulletPlay
    /\ totalSearchTime[w] >= TimePerMoveBullet
    /\ searchReturns(w)
    /\ UNCHANGED StopSearch

\* otherwise the iteration prints its "info depth" line and the loop goes on
Report ==
  \E w \in Workers :
    /\ ~Panicked
    /\ pc[w] = "timeCheck"
    /\ ~(timeLeft[w] <= TimeThreshHoldForBulletPlay /\ totalSearchTime[w] >= TimePerMoveBullet)
    /\ movesToMate' = [movesToMate EXCEPT ![w] = nextMovesToMate(@, bestScore[w])]
    /\ events' = [events EXCEPT ![w] = Append(@, depth[w])]
    /\ reported' = [reported EXCEPT ![w] = bestMove[w]]
    /\ depth' = [depth EXCEPT ![w] = @ + 1]
    /\ pc' = [pc EXCEPT ![w] = "loopTop"]
    /\ UNCHANGED << boardVars, treeVars, StopSearch, timeLeft, bestMove, bestScore, totalSearchTime,
                    returned, searches, stopSeen, completed >>

NextSearch ==
  \/ PositionCmd
  \/ GoCmd
  \/ StopCmd
  \/ SearchLoopEnd
  \/ SearchStopped
  \/ SearchIterate
  \/ RootNegamax
  \/ TimeCrunchBreak
  \/ Report

SpecSearch == Init /\ [][NextSearch]_vars

(***************************************************************************)
(* The evaluator.  The piece-square tables are indexed from 0 in the code  *)
(* and from 1 here.  PieceSquareTables has eight rows of which five are    *)
(* given; the other three hold zeros.                                      *)
(***************************************************************************)
EndgameThreshold == 12

KingPSTMiddlegameIndex == 3

KingPSTEndgameIndex == 4

\* piece-square table for pawns
PawnPST ==
  << 25, 25, 25, 25, 25, 25, 25, 25,
     0, 0, 0, 0, 0, 0, 0, 0,
     0, 0, 0, 0, 0, 0, 0, 0,
     -5, -5, -5, -5, -5, -5, -5, -5,
     -15, -2, 3, 15, 15, 3, -2, -15,
     -15, 2, 5, 5, 5, 5, 2, -15,
     0, 0, 0, 0, 0, 0, 0, 0,
     0, 0, 0, 0, 0, 0, 0, 0 >>

\* piece-square table for knights
KnightPST ==
  << -15, -15, -15, -15, -15, -15, -15, -15,
     -2, -2, -2, -2, -2, -2, -2, -2,
     -5, 0, 2, 2, 2, 2, 0, -5,
     -5, 0, 15, 25, 25, 15, 0, -5,
     -5, 0, 15, 25, 25, 15, 0, -5,
     -5, 0, 25, 25, 25, 25, 0, -5,
     -2, -2, -2, -2, -2, -2, -2, -2,
     -15, -15, -15, -15, -15, -15, -15, -15 >>

\* piece-square table for bishops
BishopPST ==
  << 0, 0, 0, 0, 0, 0, 0, 0,
     0, 0, 0, 0, 0, 0, 0, 0,
     0, 0, 0, 0, 0, 0, 0, 0,
     0, 0, 0, 0, 0, 0, 0, 0,
     0, 0, 0, 0, 0, 0, 0, 0,
     2, 5, 5, 0, 0, 5, 5, 2,
     2, 15, 5, 0, 0, 5, 15, 2,
     2, -5, -25, 0, 0, -25, -5, 2 >>

\* piece-square table for kings in the middle game
KingMiddlegamePST ==
  << -75, -75, -75, -75, -75, -75, -75, -75,
     -75, -75, -75, -75, -75, -75, -75, -75,
     -75, -75, -75, -75, -75, -75, -75, -75,
     -75, -75, -75, -75, -75, -75, -75, -75,
     -75, -75, -75, -75, -75, -75, -75, -75,
     -75, -75, -75, -75, -75, -75, -75, -75,
     25, 25, -10, -50, -50, -10, 25, 25,
     75, 50, 0, 0, 0, 0, 50, 75 >>

\* piece-square table for kings in the endgame
KingEndgamePST ==
  << -10, -10, -10, -10, -10, -10, -10, -10,
     -10, -5, -5, -5, -5, -5, -5, -10,
     -10, 2, 5, 5, 5, 5, 2, -10,
     -10, 2, 5, 25, 25, 5, 2, -10,
     -10, 2, 5, 25, 25, 5, 2, -10,
     -10, 2, 5, 5, 5, 5, 2, -10,
     -10, -5, -5, -5, -5, -5, -5, -10,
     -10, -10, -10, -10, -10, -10, -10, -10 >>

ZeroPST == [i \in 1..64 |-> 0]

PieceSquareTables ==
  << PawnPST, KnightPST, BishopPST, KingMiddlegamePST, KingEndgamePST,
     ZeroPST, ZeroPST, ZeroPST >>

\* PieceSquareTables[table][index]
pstValue(table, index) == PieceSquareTables[table + 1][index + 1]

\* the weights of the enemy pieces next to a king, by kind
piecesAroundKingValues == << 8, 12, 12, 16, 88, 4 >>

\* the squares next to a square
SquaresAroundKing == [pos \in Squares |-> KingMoves[pos]]

IsEndgame(b) == Cardinality(b.PieceBB[WhiteBB] \cup b.PieceBB[BlackBB]) >= EndgameThreshold

evaluateMaterial(b, usColor) ==
  Cardinality(b.PieceBB[PawnBB] \cap b.PieceBB[usColor]) * PawnValue
  + Cardinality(b.PieceBB[KnightBB] \cap b.PieceBB[usColor]) * KnightValue
  + Cardinality(b.PieceBB[BishopBB] \cap b.PieceBB[usColor]) * BishopValue
  + Cardinality(b.PieceBB[RookBB] \cap b.PieceBB[usColor]) * RookValue
  + Cardinality(b.PieceBB[QueenBB] \cap b.PieceBB[usColor]) * QueenValue

\* the loop of evaluatePosition over the pieces of usBB
RECURSIVE pstSum(_, _, _, _)
pstSum(b, usBB, delta, perspective) ==
  IF usBB = {} THEN 0
  ELSE pstValue(GetPieceType(b.Pieces[getLSBPos(usBB)]),
                (delta - getLSBPos(usBB)) * perspective)
       + pstSum(b, usBB \ {getLSBPos(usBB)}, delta, perspective)

evaluatePosition(b, usColor) ==
  pstValue(IF IsEndgame(b) THEN KingPSTEndgameIndex ELSE KingPSTMiddlegameIndex,
           getLSBPos(b.PieceBB[usColor] \cap b.PieceBB[KingBB]))
  + pstSum(b, b.PieceBB[usColor] \ (b.PieceBB[RookBB] \cup b.PieceBB[QueenBB]),
           IF usColor = WhiteBB THEN 63 ELSE 0,
           IF usColor = WhiteBB THEN 1 ELSE -1)

\* the loop of EvaluateKingSaftey over the enemy pieces next to the king
RECURSIVE aroundKingSum(_, _)
aroundKingSum(b, enemyPiecesAroundKing) ==
  IF enemyPiecesAroundKing = {} THEN 0
  ELSE aroundKingSum(b, enemyPiecesAroundKing \ {getLSBPos(enemyPiecesAroundKing)})
       - piecesAroundKingValues[GetPieceType(b.Pieces[getLSBPos(enemyPiecesAroundKing)]) + 1]

EvaluateKingSaftey(b, usColor, enemyColor) ==
  aroundKingSum(b, (SquaresAroundKing[getLSBPos(b.PieceBB[KingBB] \cap b.PieceBB[usColor])]
                      \ (b.PieceBB[KingBB] \cap b.PieceBB[usColor]))
                   \cap b.PieceBB[enemyColor])

evaluateSide(b, usColor, enemyColor) ==
  evaluateMaterial(b, usColor) + evaluatePosition(b, usColor)
    + EvaluateKingSaftey(b, usColor, enemyColor)

evaluateBoard(b) ==
  IF b.WhiteToMove
  THEN evaluateSide(b, WhiteBB, BlackBB) - evaluateSide(b, BlackBB, WhiteBB)
  ELSE evaluateSide(b, BlackBB, WhiteBB) - evaluateSide(b, WhiteBB, BlackBB)

(***************************************************************************)
(* The searcher: negamax, quiescence and the transposition table.  A       *)
(* Searcher value s holds the Board, the table and the move-ordering       *)
(* tables.  ttable is indexed by Hash % TTSize in the code; here every     *)
(* hash has a slot of its own, so two positions searched never share a     *)
(* slot, and a slot never written is absent from the domain.  searchHistory *)
(* holds the pairs written; every other pair is 0.  Every function returns *)
(* the Searcher it leaves behind next to its value.                        *)
(***************************************************************************)
QuiesenceSearchDepth == 3

AlphaFlag == 4

BetaFlag == 5

ExactFlag == 6

NoEntryFlag == -1

FirstKillerBonus == 150

SecondKillerBonus == 100

\* the Searcher with board b and the tables and counters t; peakPly is the
\* largest height the undo stack of the board has had during the call
SearcherOf(b, t) ==
  [Board |-> b,
   peakPly |-> b.gamePly,
   ttable |-> t.ttable,
   killerMoves |-> t.killerMoves,
   searchHistory |-> t.searchHistory,
   NodesExplored |-> t.NodesExplored,
   TTHits |-> t.TTHits]

\* the tables and counters of Searcher s
tablesOf(s) ==
  [ttable |-> s.ttable,
   killerMoves |-> s.killerMoves,
   searchHistory |-> s.searchHistory,
   NodesExplored |-> s.NodesExplored,
   TTHits |-> s.TTHits]

getEntry(s, depthLeft, alpha, beta) ==
  IF s.Board.Hash \notin DOMAIN s.ttable THEN NoEntryFlag
  ELSE IF s.ttable[s.Board.Hash].Depth < depthLeft THEN NoEntryFlag
  ELSE IF s.ttable[s.Board.Hash].Flag = ExactFlag THEN s.ttable[s.Board.Hash].Value
  ELSE IF s.ttable[s.Board.Hash].Flag = AlphaFlag /\ s.ttable[s.Board.Hash].Value <= alpha
  THEN alpha
  ELSE IF s.ttable[s.Board.Hash].Flag = BetaFlag /\ s.ttable[s.Board.Hash].Value >= beta
  THEN beta
  ELSE NoEntryFlag

setEntry(s, depthLeft, value, flag) ==
  [s EXCEPT !.ttable =
     (s.Board.Hash :> [Value |-> value, Flag |-> flag, Depth |-> depthLeft])
       @@ [h \in (DOMAIN s.ttable) \ {s.Board.Hash} |-> s.ttable[h]]]

\* searcher.searchHistory[from][to]
historyOf(s, from, to) ==
  IF <<from, to>> \in DOMAIN s.searchHistory THEN s.searchHistory[<<from, to>>] ELSE 0

\* the score orderMoves gives a move
moveScoreIn(s, move, depthLeft) ==
  LET movePieceType == GetPieceType(s.Board.Pieces[getMoveFromSq(move)])
      capturePieceType == GetPieceType(s.Board.Pieces[getMoveToSq(move)])
      moveType == getMoveType(move)
  IN CASE moveType \in {Attack, AttackEP} ->
            getPieceValue(capturePieceType) - getPieceValue(movePieceType) + CaptureBonus
       [] moveType = KnightPromotion -> KnightValue + getPieceValue(capturePieceType)
       [] moveType = BishopPromotion -> BishopValue + getPieceValue(capturePieceType)
       [] moveType = RookPromotion -> RookValue + getPieceValue(capturePieceType)
       [] moveType = QueenPromotion -> QueenValue + getPieceValue(capturePieceType)
       [] OTHER ->
            IF s.killerMoves[depthLeft - 1][1] = move THEN FirstKillerBonus
            ELSE IF s.killerMoves[depthLeft - 1][2] = move THEN SecondKillerBonus
            ELSE historyOf(s, getMoveFromSq(move), getMoveToSq(move))

\* orderMoves with the killer and history tables of the searcher
orderMovesIn(s, list, depthLeft) ==
  sortMoves(list, [i \in 1..Len(list) |-> moveScoreIn(s, list[i], depthLeft)] @@ << >>)

\* a cutoff or a raise of alpha by a move is noted unless the move captures
isCapture(move) == getMoveType(move) = Attack \/ getMoveType(move) = AttackEP

\* negamax, lines 217-220: the killer moves of the depthLeft shift by one
noteKiller(s, move, depthLeft) ==
  IF isCapture(move) THEN s
  ELSE [s EXCEPT !.killerMoves[depthLeft - 1] = << move, s.killerMoves[depthLeft - 1][1] >>]

\* negamax, lines 226-228
noteHistory(s, move, depthLeft) ==
  IF isCapture(move) THEN s
  ELSE [s EXCEPT !.searchHistory =
          (<<getMoveFromSq(move), getMoveToSq(move)>> :> depthLeft * depthLeft)
            @@ [p \in (DOMAIN s.searchHistory)
                        \ {<<getMoveFromSq(move), getMoveToSq(move)>>} |-> s.searchHistory[p]]]

\* the searcher with another board
withBoard(s, b) ==
  [s EXCEPT !.Board = b, !.peakPly = IF b.gamePly > @ THEN b.gamePly ELSE @]

\* the moves quiescence recurses on
quiescenceTakes(move) == getMoveType(move) = Attack \/ move = AttackEP

\* the searcher with a move made
childOf(s, move) == withBoard(s, DoMove(s.Board, move, TRUE))

\* the searcher with the move of a searched child unmade
unmade(r, move) == withBoard(r.s, UndoMove(r.s.Board, move))

\* the better of alpha and the score of a searched child
raised(r, alpha) == IF r.score < -alpha THEN -r.score ELSE alpha

RECURSIVE quiescence(_, _, _, _)
RECURSIVE quiescenceRange(_, _, _, _, _, _)

\* the loop of quiescence after one searched move: the move is unmade and
\* its score compared with the window.  st holds the searcher, alpha, the
\* moves recursed on and cut, set by the return on score >= beta
quiescenceStep(r, st, move, beta) ==
  IF r.score <= -beta
  THEN [s |-> unmade(r, move), alpha |-> beta, tried |-> Append(st.tried, move), cut |-> TRUE]
  ELSE [s |-> unmade(r, move), alpha |-> raised(r, st.alpha),
        tried |-> Append(st.tried, move), cut |-> FALSE]

\* the loop of quiescence over the moves lo..hi of the list, first half
\* before second half; after a cutoff no move is tried
quiescenceRange(st, list, lo, hi, depthLeft, beta) ==
  CASE st.cut -> st
    [] ~st.cut /\ lo = hi ->
         quiescenceStep(quiescence(childOf(st.s, list[lo]), depthLeft - 1, -beta, -st.alpha),
                        st, list[lo], beta)
    [] OTHER ->
         quiescenceRange(quiescenceRange(st, list, lo, (lo + hi) \div 2, depthLeft, beta),
                         list, ((lo + hi) \div 2) + 1, hi, depthLeft, beta)

\* the value of quiescence behind its loop
quiescenceValue(st) == [s |-> st.s, score |-> st.alpha, tried |-> st.tried]

\* the loop of quiescence (list is not empty)
quiescenceLoop(s, list, depthLeft, alpha, beta) ==
  quiescenceValue(quiescenceRange([s |-> s, alpha |-> alpha, tried |-> << >>, cut |-> FALSE],
                                  list, 1, Len(list), depthLeft, beta))

\* the loop of quiescence over the ordered moves: it skips the moves that
\* are not taken
quiescenceOver(s, takes, depthLeft, alpha, beta) ==
  IF takes = << >> THEN [s |-> s, score |-> alpha, tried |-> << >>]
  ELSE quiescenceLoop(s, takes, depthLeft, alpha, beta)

\* quiescence after stand_pat is known
quiescenceFrom(s, depthLeft, alpha, beta, stand_pat, gen) ==
  CASE depthLeft = 0 ->
         [s |-> [s EXCEPT !.NodesExplored = @ + 1], score |-> stand_pat, tried |-> << >>]
    [] depthLeft # 0 /\ stand_pat >= beta -> [s |-> s, score |-> beta, tried |-> << >>]
    [] OTHER ->
         quiescenceOver(withBoard(s, gen.board),
                        SelectSeq(orderMovesIn(s, gen.moves, depthLeft), quiescenceTakes),
                        depthLeft, IF alpha < stand_pat THEN stand_pat ELSE alpha, beta)

quiescence(s, depthLeft, alpha, beta) ==
  quiescenceFrom(s, depthLeft, alpha, beta, evaluateBoard(s.Board), GenLegalMoves(s.Board))

RECURSIVE negamax(_, _, _, _)
RECURSIVE negamaxRange(_, _, _, _, _, _)

\* the loop of negamax after one searched move: the move is unmade and its
\* score compared with the window.  st holds the searcher, alpha, entryFlag
\* and cut, set by the return on score >= beta
negamaxStep(r, st, move, depthLeft, beta) ==
  CASE r.score <= -beta ->
         [s |-> noteKiller(setEntry(unmade(r, move), depthLeft, beta, BetaFlag),
                           move, depthLeft),
          alpha |-> beta, entryFlag |-> BetaFlag, cut |-> TRUE]
    [] r.score > -beta /\ r.score < -st.alpha ->
         [s |-> noteHistory(unmade(r, move), move, depthLeft),
          alpha |-> -r.score, entryFlag |-> ExactFlag, cut |-> FALSE]
    [] OTHER ->
         [s |-> unmade(r, move), alpha |-> st.alpha, entryFlag |-> st.entryFlag,
          cut |-> FALSE]

\* the loop of negamax over the moves lo..hi of the list, first half before
\* second half; after a cutoff no move is tried
negamaxRange(st, list, lo, hi, depthLeft, beta) ==
  CASE st.cut -> st
    [] ~st.cut /\ lo = hi ->
         negamaxStep(negamax(childOf(st.s, list[lo]), depthLeft - 1, -beta, -st.alpha),
                     st, list[lo], depthLeft, beta)
    [] OTHER ->
         negamaxRange(negamaxRange(st, list, lo, (lo + hi) \div 2, depthLeft, beta),
                      list, ((lo + hi) \div 2) + 1, hi, depthLeft, beta)

\* the value of negamax behind its loop: after a cutoff beta, with the entry
\* already stored; else alpha, stored with entryFlag
negamaxValue(st, depthLeft) ==
  IF st.cut THEN [s |-> st.s, score |-> st.alpha]
  ELSE [s |-> setEntry(st.s, depthLeft, st.alpha, st.entryFlag), score |-> st.alpha]

\* the loop of negamax (list is not empty)
negamaxLoop(s, list, depthLeft, alpha, beta, entryFlag) ==
  negamaxValue(negamaxRange([s |-> s, alpha |-> alpha, entryFlag |-> entryFlag,
                             cut |-> FALSE],
                            list, 1, Len(list), depthLeft, beta),
               depthLeft)

\* the searcher and the score of a result
valueOf(r) == [s |-> r.s, score |-> r.score]

\* negamax at depth 0: the static value is stored, the quiescence value returned
negamaxLeaf(s, alpha, beta, score) ==
  valueOf(quiescence(setEntry(s, 0, score, ExactFlag), QuiesenceSearchDepth, alpha, beta))

\* negamax once the legal moves are known
negamaxMoves(s, depthLeft, alpha, beta, gen) ==
  IF Len(gen.moves) = 0
  THEN IF InCheck(gen.board)
       THEN [s |-> setEntry(withBoard(s, gen.board), depthLeft,
                            NegInf + (SearchDepth - depthLeft), ExactFlag),
             score |-> NegInf + (SearchDepth - depthLeft)]
       ELSE [s |-> setEntry(withBoard(s, gen.board), depthLeft, 0, ExactFlag), score |-> 0]
  ELSE negamaxLoop(withBoard(s, gen.board), orderMovesIn(s, gen.moves, depthLeft),
                   depthLeft, alpha, beta, AlphaFlag)

\* negamax once the table has been probed
negamaxProbed(s, depthLeft, alpha, beta, score) ==
  CASE score # NoEntryFlag -> [s |-> [s EXCEPT !.TTHits = @ + 1], score |-> score]
    [] score = NoEntryFlag /\ depthLeft = 0 ->
         negamaxLeaf([s EXCEPT !.NodesExplored = @ + 1], alpha, beta, evaluateBoard(s.Board))
    [] OTHER -> negamaxMoves(s, depthLeft, alpha, beta, GenLegalMoves(s.Board))

negamax(s, depthLeft, alpha, beta) ==
  negamaxProbed(s, depthLeft, alpha, beta, getEntry(s, depthLeft, alpha, beta))

RECURSIVE rootNegamaxRange(_, _, _, _, _, _)

\* the loop of rootNegamax after one searched move: the move is unmade;
\* scores lists the value of -negamax for every move tried.  st holds the
\* searcher, alpha, bestMove, bestScore and cut, set by the break on
\* bestScore >= beta
rootNegamaxStep(r, st, move, beta) ==
  [s |-> unmade(r, move),
   alpha |-> raised(r, st.alpha),
   bestMove |-> IF r.score < -st.alpha THEN move ELSE st.bestMove,
   bestScore |-> -r.score,
   scores |-> Append(st.scores, -r.score),
   cut |-> r.score <= -beta]

\* the loop of rootNegamax over the moves lo..hi of the list, first half
\* before second half; after the break no move is tried
rootNegamaxRange(st, list, lo, hi, depthLeft, beta) ==
  CASE st.cut -> st
    [] ~st.cut /\ lo = hi ->
         rootNegamaxStep(negamax(childOf(st.s, list[lo]), depthLeft - 1, -beta, -st.alpha),
                         st, list[lo], beta)
    [] OTHER ->
         rootNegamaxRange(rootNegamaxRange(st, list, lo, (lo + hi) \div 2, depthLeft, beta),
                          list, ((lo + hi) \div 2) + 1, hi, depthLeft, beta)

\* the values rootNegamax returns behind its loop
rootNegamaxValue(st) ==
  [s |-> st.s, bestMove |-> st.bestMove, bestScore |-> st.bestScore, scores |-> st.scores]

\* the loop of rootNegamax (list is not empty)
rootNegamaxLoop(s, list, depthLeft, alpha, beta) ==
  rootNegamaxValue(rootNegamaxRange([s |-> s, alpha |-> alpha, bestMove |-> NullMove,
                                     bestScore |-> NegInf, scores |-> << >>, cut |-> FALSE],
                                    list, 1, Len(list), depthLeft, beta))

\* rootNegamax once the legal moves are known; without a move the loop is
\* not entered
rootNegamaxMoves(s, depthLeft, gen) ==
  IF gen.moves = << >>
  THEN [ordered |-> << >>, s |-> withBoard(s, gen.board), bestMove |-> NullMove,
        bestScore |-> NegInf, scores |-> << >>]
  ELSE [ordered |-> orderMovesIn(s, gen.moves, depthLeft)]
         @@ rootNegamaxLoop(withBoard(s, gen.board), orderMovesIn(s, gen.moves, depthLeft),
                            depthLeft, NegInf, PosInf - 1)

\* Searcher.rootNegamax with the searcher given
rootNegamaxIn(s, depthLeft) == rootNegamaxMoves(s, depthLeft, GenLegalMoves(s.Board))

(***************************************************************************)
(* Calls of the searcher.  Search calls rootNegamax once for every depth,  *)
(* rootNegamax calls negamax at the children of the root, and negamax      *)
(* calls itself and quiescence at the nodes below.  The actions here make  *)
(* such calls on a loaded position with the tables the calls before left:  *)
(* a whole Search that a stop command ends after an iteration, and single  *)
(* calls of negamax and quiescence as they are made at the nodes of the    *)
(* tree.  NodesExplored and TTHits are counted from the start of a call.   *)
(* A Search that returns NullMove makes goCommandResponse panic.           *)
(***************************************************************************)
\* k7/8/1K6/8/8/8/8/7R w - - 0 1
\* the rook mates on h8; on b1 it stalemates
FenMateInOne ==
  << <<"k", "7", "/", "8", "/", "1", "K", "6", "/", "8", "/", "8", "/", "8", "/", "8", "/", "7", "R">>, <<"w">>, <<"-">>, <<"-">>, <<"0">>, <<"1">> >>

\* 4k3/8/8/8/3pP3/8/8/4K3 b - e3 0 1
\* the pawn d4 may capture en passant on e3
FenEPCapture ==
  << <<"4", "k", "3", "/", "8", "/", "8", "/", "8", "/", "3", "p", "P", "3", "/", "8", "/", "8", "/", "4", "K", "3">>, <<"b">>, <<"-">>, <<"e", "3">>, <<"0">>, <<"1">> >>

\* 8/8/4k3/2p5/8/1P6/4K3/8 w - - 0 1
\* the side to move stands one point worse
FenMinusOne ==
  << <<"8", "/", "8", "/", "4", "k", "3", "/", "2", "p", "5", "/", "8", "/", "1", "P", "6", "/", "4", "K", "3", "/", "8">>, <<"w">>, <<"-">>, <<"-">>, <<"0">>, <<"1">> >>

\* 1k6/8/1K6/8/8/8/8/7R b - - 0 1
\* after b8a8 the position is the one above, with white to move
FenBeforeMate ==
  << <<"1", "k", "6", "/", "8", "/", "1", "K", "6", "/", "8", "/", "8", "/", "8", "/", "8", "/", "7", "R">>, <<"b">>, <<"-">>, <<"-">>, <<"0">>, <<"1">> >>

TreeFENS ==
  { FenMateInOne, FenStalemate, FenCastleRooks, FenEPCapture, FenMinusOne, FenBeforeMate }

\* the window of the first child of the root, and a narrow one
Windows == { <<NegInf + 1, PosInf>>, <<-50, 50>> }

\* the tables and counters a call starts with
atCallStart(t) == [t EXCEPT !.NodesExplored = 0, !.TTHits = 0]

\* the loop of Search while no stop command has arrived: the iterations
\* from depthLeft to lastDepth, each followed by its "info depth" line
RECURSIVE searchLoop(_, _, _, _, _, _)
RECURSIVE searchReport(_, _, _, _, _)
searchLoop(s, depthLeft, lastDepth, mate, lines, last) ==
  IF depthLeft > lastDepth
  THEN [s |-> s, last |-> last, events |-> lines]
  ELSE searchReport(rootNegamaxIn(s, depthLeft), depthLeft, lastDepth, mate, lines)

\* Search, lines 131-148: the line of the iteration, and NodesExplored reset
searchReport(r, depthLeft, lastDepth, mate, lines) ==
  searchLoop([r.s EXCEPT !.NodesExplored = 0], depthLeft + 1, lastDepth,
             nextMovesToMate(mate, r.bestScore),
             Append(lines, [depth |-> depthLeft, score |-> r.bestScore,
                            mate |-> nextMovesToMate(mate, r.bestScore)]),
             r)

\* Search with a stop command arriving during iteration lastDepth
SearchUpTo(s, lastDepth) ==
  searchLoop(s, 1, lastDepth, 0, << >>,
             [bestMove |-> NullMove, bestScore |-> NegInf, ordered |-> << >>, scores |-> << >>])

\* the position command
TreePosition ==
  /\ lastOp # "panic"
  /\ \E fen \in TreeFENS :
       /\ ~LoadFENPanics(fen)
       /\ board' = LoadFEN(board, fen)
  /\ moves' = << >>
  /\ movesMade' = << >>
  /\ lastOp' = "LoadFEN"
  /\ result' = NoResult
  /\ UNCHANGED << searchVars, searcher, calls >>

\* what a call leaves in the variables
treeReturns(r, res, op) ==
  /\ board' = r.s.Board
  /\ searcher' = tablesOf(r.s)
  /\ result' = [res EXCEPT !.peakPly = r.s.peakPly]
  /\ calls' = calls + 1
  /\ lastOp' = op
  /\ moves' = << >>
  /\ movesMade' = << >>
  /\ UNCHANGED searchVars

\* the go command, and a stop command during iteration lastDepth
searchReturned(r) ==
  treeReturns(r,
              [NoResult EXCEPT !.op = "Search", !.depthLeft = Len(r.events),
                               !.score = r.last.bestScore, !.bestMove = r.last.bestMove,
                               !.ordered = r.last.ordered, !.scores = r.last.scores,
                               !.events = r.events],
              IF r.last.bestMove = NullMove THEN "panic" ELSE "Search")

TreeSearch ==
  /\ lastOp # "panic"
  /\ Loaded
  /\ calls < MaxCalls
  /\ \E lastDepth \in 1..MaxTreeDepth :
       searchReturned(SearchUpTo(SearcherOf(board, atCallStart(searcher)), lastDepth))

negamaxReturned(r, depthLeft, alpha, beta) ==
  treeReturns(r,
              [NoResult EXCEPT !.op = "negamax", !.depthLeft = depthLeft, !.alpha = alpha,
                               !.beta = beta, !.score = r.score],
              "negamax")

\* a call of negamax
TreeNegamax ==
  /\ lastOp # "panic"
  /\ Loaded
  /\ calls < MaxCalls
  /\ \E depthLeft \in 0..(MaxTreeDepth - 1), w \in Windows :
       negamaxReturned(negamax(SearcherOf(board, atCallStart(searcher)), depthLeft, w[1], w[2]),
                       depthLeft, w[1], w[2])

quiescenceReturned(r, depthLeft, alpha, beta) ==
  treeReturns(r,
              [NoResult EXCEPT !.op = "quiescence", !.depthLeft = depthLeft, !.alpha = alpha,
                               !.beta = beta, !.score = r.score, !.tried = r.tried],
              "quiescence")

\* a call of quiescence
TreeQuiescence ==
  /\ lastOp # "panic"
  /\ Loaded
  /\ calls < MaxCalls
  /\ \E depthLeft \in 0..QuiesenceSearchDepth, w \in Windows :
       quiescenceReturned(quiescence(SearcherOf(board, atCallStart(searcher)),
                                     depthLeft, w[1], w[2]),
                          depthLeft, w[1], w[2])

NextTree ==
  \/ TreePosition
  \/ TreeSearch
  \/ TreeNegamax
  \/ TreeQuiescence

SpecTree == Init /\ [][NextTree]_vars

\* the driver sends position and go commands only
NextSearches ==
  \/ TreePosition
  \/ TreeSearch

SpecSearches == Init /\ [][NextSearches]_vars

(***************************************************************************)
(* Input of the driver.  The driver hands LoadFEN any string and           *)
(* DoMoveFromCoords any coordinate text; the position command of the UCI   *)
(* loop loads a FEN and applies the texts after "moves".  A call that      *)
(* panics ends the program: lastOp is "panic" and no action follows.       *)
(* result records the call: its input and whether it panicked, the only    *)
(* way these functions have to signal an error (none returns one).         *)
(***************************************************************************)
\* 4k3/8/8/8/8/8/8/4K2R w K - 0: the full-move field is missing
FenFiveFields ==
  << <<"4", "k", "3", "/", "8", "/", "8", "/", "8", "/", "8", "/", "8", "/", "8", "/", "4", "K", "2", "R">>, <<"w">>, <<"K">>, <<"-">>, <<"0">> >>

\* 4k3/8/8/8/8/8/8/4K2R w K - 0 1 1: a field too many
FenSevenFields ==
  << <<"4", "k", "3", "/", "8", "/", "8", "/", "8", "/", "8", "/", "8", "/", "8", "/", "4", "K", "2", "R">>, <<"w">>, <<"K">>, <<"-">>, <<"0">>, <<"1">>, <<"1">> >>

\* 4k3/8/8/8/8/8/8/4K2R - K - 0 1: the side to move is not w or b
FenBadTurn ==
  << <<"4", "k", "3", "/", "8", "/", "8", "/", "8", "/", "8", "/", "8", "/", "8", "/", "4", "K", "2", "R">>, <<"-">>, <<"K">>, <<"-">>, <<"0">>, <<"1">> >>

\* 4k3/8/8/8/8/8/8/4K2R w K - - 1: the half-move clock is not a number
FenBadClock ==
  << <<"4", "k", "3", "/", "8", "/", "8", "/", "8", "/", "8", "/", "8", "/", "8", "/", "4", "K", "2", "R">>, <<"w">>, <<"K">>, <<"-">>, <<"-">>, <<"1">> >>

MalformedFENS == { FenFiveFields, FenSevenFields, FenBadTurn, FenBadClock }

\* the well-formed strings the driver loads
InputFENS == { FenCastleRooks, FenTwoMoves }

\* the assignments LoadFEN starts with, before it splits the string
resetBoard(b) ==
  [b EXCEPT
     !.PieceBB = ZeroPieceBB,
     !.Pieces = ZeroPieces,
     !.WhiteToMove = TRUE,
     !.CastlingRights = 0,
     !.EPSquare = NoEPSquare,
     !.undoInfoList = EmptyUndoInfoList,
     !.gamePly = -1]

\* Board.LoadFEN on any string: with more than six fields it panics after
\* the reset, with fewer the read of a missing field panics after the
\* reset, with six fields it loads whatever the fields hold
loadAnyFEN(b, fen) ==
  IF LoadFENPanics(fen)
  THEN [board |-> resetBoard(b), panics |-> TRUE]
  ELSE [board |-> LoadFEN(b, fen), panics |-> FALSE]

\* the record of a call of the driver
inputResult(op, fen, text, panics) ==
  [op |-> op, fen |-> fen, text |-> text, error |-> panics]

\* the driver loads a string over the position loaded before
InputLoadFEN ==
  /\ lastOp # "panic"
  /\ calls < MaxInputs
  /\ \E fen \in InputFENS \cup MalformedFENS :
       /\ fen \in MalformedFENS => Loaded
       /\ board' = loadAnyFEN(board, fen).board
       /\ lastOp' = IF loadAnyFEN(board, fen).panics THEN "panic" ELSE "LoadFEN"
       /\ result' = inputResult("LoadFEN", fen, << >>, loadAnyFEN(board, fen).panics)
  /\ calls' = calls + 1
  /\ moves' = << >>
  /\ movesMade' = << >>
  /\ UNCHANGED << searchVars, searcher >>

\* the squares of the pieces of the side to move
ownSquares(b) ==
  { sq \in Squares : b.Pieces[sq] # NoPiece /\ getPieceColor(b.Pieces[sq]) = usColorOf(b) }

\* the texts the driver may send: a piece of the side to move goes to any
\* other square.  Texts read as a castle, and captures of a king (DoMove
\* panics on them), are left out.
InputTexts(b) ==
  { PosToCoordinate(ft[1]) \o PosToCoordinate(ft[2]) :
      ft \in { p \in ownSquares(b) \X Squares : p[1] # p[2] } }

plainText(b, text) ==
  /\ getMoveType(makeMoveFromCoords(b, text, FALSE)) \in {Quiet, Attack, AttackEP}
  /\ ~DoMovePanics(b, makeMoveFromCoords(b, text, FALSE))

\* board.DoMoveFromCoords(text, false, false) on any text
InputDoMoveFromCoords ==
  /\ lastOp # "panic"
  /\ calls < MaxInputs
  /\ Loaded
  /\ board.HalfMoveCounter < MaxPly
  /\ \E text \in InputTexts(board) :
       /\ plainText(board, text)
       /\ board' = DoMove(board, makeMoveFromCoords(board, text, FALSE), FALSE)
       /\ result' = inputResult("DoMoveFromCoords", << >>, text, FALSE)
  /\ lastOp' = "DoMoveFromCoords"
  /\ calls' = calls + 1
  /\ moves' = << >>
  /\ movesMade' = << >>
  /\ UNCHANGED << searchVars, searcher >>

\* positionCommandResponse for "position fen <fen> moves <text>"
InputPosition ==
  /\ lastOp # "panic"
  /\ calls < MaxInputs
  /\ board.HalfMoveCounter < MaxPly
  /\ \E fen \in InputFENS :
       \E text \in InputTexts(LoadFEN(board, fen)) :
         /\ plainText(LoadFEN(board, fen), text)
         /\ board' = DoMove(LoadFEN(board, fen),
                            ConvertLongAlgebraicNotationToMove(LoadFEN(board, fen), text),
                            FALSE)
         /\ result' = inputResult("position", fen, text, FALSE)
  /\ lastOp' = "position"
  /\ calls' = calls + 1
  /\ moves' = << >>
  /\ movesMade' = << >>
  /\ UNCHANGED << searchVars, searcher >>

NextInput ==
  \/ InputLoadFEN
  \/ InputDoMoveFromCoords
  \/ InputPosition

SpecInput == Init /\ [][NextInput]_vars

(***************************************************************************)
(* A game played move by move: the driver loads a position, asks for the   *)
(* legal moves and makes one of them, with no move taken back.  movesMade  *)
(* is then the whole history since the position was loaded.                *)
(***************************************************************************)
\* 4k2r/8/8/8/8/8/8/4K1RR b K - 0 1
\* white may castle kingside once g1 is free; the black rook can take on h1
FenTwoRooks ==
  << <<"4", "k", "2", "r", "/", "8", "/", "8", "/", "8", "/", "8", "/", "8", "/", "8", "/", "4", "K", "1", "R", "R">>, <<"b">>, <<"K">>, <<"-">>, <<"0">>, <<"1">> >>

\* 4k3/8/8/8/6n1/8/4P3/4K3 w - - 0 1
\* after e2e4 the en-passant square is e3, where the knight g4 can go
FenKnightNearEP ==
  << <<"4", "k", "3", "/", "8", "/", "8", "/", "8", "/", "6", "n", "1", "/", "8", "/", "4", "P", "3", "/", "4", "K", "3">>, <<"w">>, <<"-">>, <<"-">>, <<"0">>, <<"1">> >>

GameFENS == { FenTwoRooks, FenKnightNearEP }

\* Board.LoadFEN at the start of a game
GamePosition ==
  /\ lastOp = "new"
  /\ \E fen \in GameFENS : board' = LoadFEN(board, fen)
  /\ moves' = << >>
  /\ movesMade' = << >>
  /\ lastOp' = "LoadFEN"
  /\ UNCHANGED << searchVars, treeVars >>

\* GenLegalMoves(&board, &moves) for the side to move
GameGenLegalMoves ==
  /\ Loaded
  /\ lastOp \in {"LoadFEN", "DoMove"}
  /\ moves' = GenLegalMoves(board).moves
  /\ board' = GenLegalMoves(board).board
  /\ lastOp' = "GenLegalMoves"
  /\ UNCHANGED << movesMade, searchVars, treeVars >>

\* board.DoMove(&move, true) with a move of the list
GameDoMove ==
  /\ lastOp = "GenLegalMoves"
  /\ Len(movesMade) < MaxGamePly
  /\ \E i \in 1..Len(moves) :
       /\ ~DoMovePanics(board, moves[i])
       /\ board' = DoMove(board, moves[i], TRUE)
       /\ movesMade' = Append(movesMade, moves[i])
  /\ moves' = << >>
  /\ lastOp' = "DoMove"
  /\ UNCHANGED << searchVars, treeVars >>

NextGame ==
  \/ GamePosition
  \/ GameGenLegalMoves
  \/ GameDoMove

SpecGame == Init /\ [][NextGame]_vars

(***************************************************************************)
(* Properties of the board.                                                *)
(***************************************************************************)
\* the fields of a board a caller can observe: everything but the contents
\* of the undo stack (its height gamePly is observable)
Observable(b) == [b EXCEPT !.undoInfoList = EmptyUndoInfoList]

\* the move made last with the state saved
lastMoveMade == movesMade[Len(movesMade)]

\* C1: for every reachable position and every move GenLegalMoves returned
\* for it, DoMove with the state saved followed by UndoMove restores every
\* observable field: bitboards, mailbox, side to move, castling rights,
\* en-passant square, the three counters, the undo-stack height and the hash.
C1_MakeUnmakeRestores ==
  \A i \in 1..Len(moves) :
    Observable(UndoMove(DoMove(board, moves[i], TRUE), moves[i])) = Observable(board)

\* a position whose legal moves include one that gives up a castling right
C1_Witness ==
  /\ lastOp = "GenLegalMoves"
  /\ \E i \in 1..Len(moves) :
       DoMove(board, moves[i], TRUE).CastlingRights # board.CastlingRights

\* C2: in every position reached from LoadFEN by DoMove and UndoMove the
\* hash kept incrementally equals the hash computed from scratch: the XOR
\* of the keys of the pieces, of the side to move, of the castling rights
\* set and of the en-passant file when a pawn can capture there.
C2_HashIsFromScratch == Loaded => board.Hash = initZobristHash(board)

\* a move has just given up a castling right
C2_Witness ==
  /\ lastOp = "DoMove"
  /\ board.CastlingRights # UndoMove(board, lastMoveMade).CastlingRights

\* the bitboards that hold square s
boardsHolding(b, s) == { k \in 0..7 : s \in b.PieceBB[k] }

\* C5: after every operation the mailbox and the bitboards agree: square s
\* holds (kind K, color c) exactly when bit s is set in PieceBB[K] and
\* PieceBB[c] and in no other bitboard, and holds NoPiece exactly when bit s
\* is set in no bitboard.
C5_MailboxMatchesBitboards ==
  \A s \in Squares :
    IF board.Pieces[s] = NoPiece
    THEN boardsHolding(board, s) = {}
    ELSE /\ getPieceColor(board.Pieces[s]) \in {WhiteBB, BlackBB}
         /\ GetPieceType(board.Pieces[s]) \in PawnBB..KingBB
         /\ boardsHolding(board, s) =
              {GetPieceType(board.Pieces[s]), getPieceColor(board.Pieces[s])}

\* a capture en passant has just been made
C5_Witness ==
  /\ lastOp = "DoMove"
  /\ getMoveType(lastMoveMade) = AttackEP

\* the king and the rook of a color stand on the given home squares
atHome(b, color, kingSq, rookSq) ==
  /\ b.Pieces[kingSq] = King + color
  /\ b.Pieces[rookSq] = Rook + color

\* C6: after LoadFEN or DoMove every castling right that is set has the king
\* of its color on e1/e8 and a rook of that color on the matching corner,
\* also after an enemy rook captured the rook on its corner.
C6_RightsImplyHomeSquares ==
  lastOp \in {"LoadFEN", "DoMove", "DoMoveFromCoords"} =>
    /\ HasRight(board.CastlingRights, WhiteKingside) => atHome(board, White, E1, H1)
    /\ HasRight(board.CastlingRights, WhiteQueenside) => atHome(board, White, E1, A1)
    /\ HasRight(board.CastlingRights, BlackKingside) => atHome(board, Black, E8, H8)
    /\ HasRight(board.CastlingRights, BlackQueenside) => atHome(board, Black, E8, A8)

(***************************************************************************)
(* The rules of chess on the mailbox alone, as the yardstick for the move  *)
(* generator: which piece attacks which square, and which moves are legal. *)
(***************************************************************************)
RefRank(s) == s \div 8

RefFile(s) == s % 8

sign(x) == IF x > 0 THEN 1 ELSE IF x < 0 THEN -1 ELSE 0

larger(x, y) == IF x > y THEN x ELSE y

\* the squares strictly between two squares of one rank, file or diagonal
betweenBy(a, dr, df) ==
  { a + k * (8 * sign(dr) + sign(df)) : k \in 1..(larger(abs(dr), abs(df)) - 1) }

RefBetween(a, b) == betweenBy(a, RefRank(b) - RefRank(a), RefFile(b) - RefFile(a))

RefClear(pieces, a, b) == \A s \in RefBetween(a, b) : pieces[s] = NoPiece

\* a piece of the given kind and color on `from` attacks the square at the
\* offset of dr ranks and df files
attacksBy(pieces, kind, color, from, to, dr, df) ==
  CASE kind = PawnBB -> abs(df) = 1 /\ dr = (IF color = WhiteBB THEN 1 ELSE -1)
    [] kind = KnightBB -> {abs(dr), abs(df)} = {1, 2}
    [] kind = KingBB -> larger(abs(dr), abs(df)) = 1
    [] kind = BishopBB -> abs(dr) = abs(df) /\ dr # 0 /\ RefClear(pieces, from, to)
    [] kind = RookBB -> (dr = 0) # (df = 0) /\ RefClear(pieces, from, to)
    [] kind = QueenBB ->
         /\ from # to
         /\ abs(dr) = abs(df) \/ dr = 0 \/ df = 0
         /\ RefClear(pieces, from, to)

RefAttacks(pieces, from, to) ==
  /\ pieces[from] # NoPiece
  /\ attacksBy(pieces, GetPieceType(pieces[from]), getPieceColor(pieces[from]), from, to,
               RefRank(to) - RefRank(from), RefFile(to) - RefFile(from))

\* a piece of another color than `color` attacks square sq
RefAttacked(pieces, color, sq) ==
  \E from \in Squares :
    /\ pieces[from] # NoPiece
    /\ getPieceColor(pieces[from]) # color
    /\ RefAttacks(pieces, from, sq)

\* the king of the color is attacked
RefKingAttacked(pieces, color) ==
  \E k \in Squares : pieces[k] = KingBB * 32 + color * 4 /\ RefAttacked(pieces, color, k)

\* the mailbox after a capture en passant from `from` onto `to`
RefAfterEP(pieces, color, from, to) ==
  [s \in Squares |->
     IF s = to THEN pieces[from]
     ELSE IF s = from \/ s = epCapturePos(color, to) THEN NoPiece
     ELSE pieces[s]]

\* C3: every move GenLegalMoves returns is legal: after DoMove of it the
\* king of the side that moved is attacked by no enemy piece.
C3_NoPseudoLegalLeak ==
  \A i \in 1..Len(moves) :
    /\ ~DoMovePanics(board, moves[i])
    /\ ~RefKingAttacked(DoMove(board, moves[i], TRUE).Pieces, usColorOf(board))

\* the moves were generated for a side in check, whose king could step
\* onto another attacked square
C3_Witness ==
  /\ lastOp = "GenLegalMoves"
  /\ moves # << >>
  /\ RefKingAttacked(board.Pieces, usColorOf(board))

\* C7: GenLegalMoves returns a capture en passant only if the mover's king is
\* not attacked once the capturing pawn has moved and the captured pawn is
\* gone, in and out of check; in 8/8/8/KPp4r/8/8/8/4k3 w - c6 it does not
\* return b5c6.
C7_EnPassantOnlyIfSafe ==
  \A i \in 1..Len(moves) :
    /\ getMoveType(moves[i]) = AttackEP =>
         ~RefKingAttacked(RefAfterEP(board.Pieces, usColorOf(board),
                                     getMoveFromSq(moves[i]), getMoveToSq(moves[i])),
                          usColorOf(board))
    /\ board.Pieces = LoadFEN(ZeroBoard, FenEPTrap).Pieces /\ board.EPSquare = 42 =>
         ConvertMoveToLongAlgebraicNotation(moves[i]) # <<"b", "5", "c", "6">>

\* the moves were generated for the position of the example, where the pawn
\* on b5 attacks the en-passant square c6
C7_Witness ==
  /\ lastOp = "GenLegalMoves"
  /\ moves # << >>
  /\ board.EPSquare = 42
  /\ board.Pieces[33] = Pawn + White
  /\ board.Pieces[34] = Pawn + Black
  /\ board.Pieces[39] = Rook + Black

\* the kinds of move a pawn may make from `from` to `to`
promotionKinds == {KnightPromotion, BishopPromotion, RookPromotion, QueenPromotion}

refPawnKinds(b, white, from, to, dr, df) ==
  LET forward == IF white THEN 1 ELSE -1
      last == RefRank(to) = (IF white THEN 7 ELSE 0)
      home == RefRank(from) = (IF white THEN 1 ELSE 6)
  IN IF df = 0 /\ dr = forward /\ b.Pieces[to] = NoPiece
     THEN (IF last THEN promotionKinds ELSE {Quiet})
     ELSE IF df = 0 /\ dr = 2 * forward /\ home /\ b.Pieces[to] = NoPiece
             /\ b.Pieces[from + 8 * forward] = NoPiece
     THEN {Quiet}
     ELSE IF abs(df) = 1 /\ dr = forward /\ b.Pieces[to] # NoPiece
     THEN (IF last THEN promotionKinds ELSE {Attack})
     ELSE IF abs(df) = 1 /\ dr = forward /\ to = b.EPSquare
     THEN {AttackEP}
     ELSE {}

\* the castling move of the king from `from` to `to`, if the rules allow it
refCastling(b, color, from, to, right, rookSq, crossed, kind) ==
  IF /\ b.Pieces[from] = KingBB * 32 + color * 4
     /\ b.Pieces[rookSq] = RookBB * 32 + color * 4
     /\ HasRight(b.CastlingRights, right)
     /\ RefClear(b.Pieces, from, rookSq)
     /\ \A s \in crossed \cup {from} : ~RefAttacked(b.Pieces, color, s)
  THEN {kind} ELSE {}

refCastlingKinds(b, white, from, to) ==
  IF white /\ from = E1 /\ to = G1
  THEN refCastling(b, WhiteBB, from, to, WhiteKingside, H1, {F1, G1}, CastleWKS)
  ELSE IF white /\ from = E1 /\ to = C1
  THEN refCastling(b, WhiteBB, from, to, WhiteQueenside, A1, {D1, C1}, CastleWQS)
  ELSE IF ~white /\ from = E8 /\ to = G8
  THEN refCastling(b, BlackBB, from, to, BlackKingside, H8, {F8, G8}, CastleBKS)
  ELSE IF ~white /\ from = E8 /\ to = C8
  THEN refCastling(b, BlackBB, from, to, BlackQueenside, A8, {D8, C8}, CastleBQS)
  ELSE {}

\* the kinds of move the piece on `from` may make to `to`, the safety of its
\* own king left aside
refKinds(b, color, kind, from, to) ==
  IF b.Pieces[to] # NoPiece /\ getPieceColor(b.Pieces[to]) = color THEN {}
  ELSE IF GetPieceType(b.Pieces[to]) = KingBB /\ b.Pieces[to] # NoPiece THEN {}
  ELSE IF kind = PawnBB
  THEN refPawnKinds(b, color = WhiteBB, from, to,
                    RefRank(to) - RefRank(from), RefFile(to) - RefFile(from))
  ELSE (IF RefAttacks(b.Pieces, from, to)
        THEN {IF b.Pieces[to] = NoPiece THEN Quiet ELSE Attack} ELSE {})
       \cup (IF kind = KingBB THEN refCastlingKinds(b, color = WhiteBB, from, to) ELSE {})

RefPseudoLegalMoves(b) ==
  UNION { { MakeMove(from, to, k) :
              k \in refKinds(b, usColorOf(b), GetPieceType(b.Pieces[from]), from, to) } :
          <<from, to>> \in { ft \in Squares \X Squares :
                               /\ ft[1] # ft[2]
                               /\ b.Pieces[ft[1]] # NoPiece
                               /\ getPieceColor(b.Pieces[ft[1]]) = usColorOf(b) } }

\* the legal moves of a position: the moves of its pieces that leave the
\* mover's king not attacked once made
RefLegalMoves(b) ==
  { m \in RefPseudoLegalMoves(b) :
      ~RefKingAttacked(DoMove(b, m, TRUE).Pieces, usColorOf(b)) }

\* C4: GenLegalMoves returns every legal move of the position, each exactly
\* once: the moves that leave the mover's king not attacked after make,
\* captures en passant by a pawn pinned along the capture diagonal and
\* promotions of every kind included.
C4_GeneratorIsComplete ==
  lastOp = "GenLegalMoves" =>
    /\ Range(moves) = RefLegalMoves(board)
    /\ Len(moves) = Cardinality(Range(moves))

(***************************************************************************)
(* Properties of the search driver.                                        *)
(***************************************************************************)
\* goroutine w leaves Search in this step
searchReturnsIn(w) ==
  /\ pc[w] \in {"loopTop", "timeCheck"}
  /\ pc'[w] \in {"done", "panicked"}

\* C8: whatever the order of go and stop commands, a Search of a position
\* that has a legal move returns one of the legal moves of that position,
\* never NullMove.
C8_SearchReturnsLegalMove ==
  \A w \in Workers :
    pc[w] \in {"done", "panicked"} /\ GenLegalMoves(board).moves # << >> =>
      returned[w] \in Range(GenLegalMoves(board).moves)

\* C9: when a stop command arrives while an iteration of Search is running,
\* the goroutine starts no further iteration, and the move it returns is
\* the best move of the iteration that was running, a completed one.
C9_StopEndsSearch ==
  [][\A w \in Workers :
       stopSeen[w] =>
         /\ ~(pc[w] = "loopTop" /\ pc'[w] = "rootNegamax")
         /\ searchReturnsIn(w) =>
              returned'[w] = bestMove[w] /\ completed[w] > 0]_vars

\* C10: a call of Search prints its "info depth" lines for the depths 1..K
\* in this order, one for every call of rootNegamax that returned, the one
\* before a time-crunch break included, and returns the best move of the
\* last depth that printed a line.
C10_OneEventPerIteration ==
  [][\A w \in Workers :
       /\ events[w] = [i \in 1..Len(events[w]) |-> i]
       /\ searchReturnsIn(w) =>
            /\ Len(events[w]) = completed[w]
            /\ returned'[w] = reported[w]]_vars

\* goroutine w is inside Search
running(w) == pc[w] \in {"loopTop", "rootNegamax", "timeCheck"}

\* C13: at most one Search runs at a time on the Searcher, and while a
\* Search runs no command of the driver changes the board it searches.
C13_OnlyWorkerTouchesPosition ==
  /\ [](Cardinality({ w \in Workers : running(w) }) <= 1)
  /\ [][(\E w \in Workers : running(w)) => board' = board]_vars

(***************************************************************************)
(* Properties of the searcher.                                             *)
(***************************************************************************)
\* the side to move can mate with its next move
mateInOne(b) ==
  \E m \in RefLegalMoves(b) :
    /\ RefLegalMoves(DoMove(b, m, TRUE)) = {}
    /\ RefKingAttacked(DoMove(b, m, TRUE).Pieces, enemyColorOf(b))

\* C11: when the side to move has a mate in N moves that an iteration
\* finds, the "info depth" line of the iteration reports mate N, whatever
\* the depth of the iteration: with a mate in one, every iteration of depth
\* two or more, which sees the mated position, reports mate 1.
C11_MateDistanceReported ==
  result.op = "Search" /\ mateInOne(board) =>
    \A i \in 1..Len(result.events) :
      result.events[i].depth >= 2 => result.events[i].mate = 1

\* the side to move has no legal move and is not in check
stalemated(b) ==
  /\ RefLegalMoves(b) = {}
  /\ ~RefKingAttacked(b.Pieces, usColorOf(b))

\* C12: in a stalemate GenLegalMoves returns no move and the search scores
\* the position 0, at the root of a Search and at a node negamax searches.
C12_StalemateScoresZero ==
  Loaded /\ stalemated(board) =>
    /\ GenLegalMoves(board).moves = << >>
    /\ result.op = "Search" \/ (result.op = "negamax" /\ result.depthLeft >= 1) =>
         result.score = 0

\* the largest member of a sequence of numbers
seqMax(q) == CHOOSE x \in Range(q) : \A y \in Range(q) : y <= x

\* C16: the score rootNegamax returns is the largest of the negated child
\* scores of the root moves, and the move it returns is a move that got
\* this score.
C16_RootScoreIsBestScore ==
  result.op = "Search" /\ result.scores # << >> =>
    /\ result.score = seqMax(result.scores)
    /\ \E i \in 1..Len(result.scores) :
         result.ordered[i] = result.bestMove /\ result.scores[i] = result.score

\* this step is a call of negamax
negamaxCalled == result'.op = "negamax" /\ calls' = calls + 1

\* the entry of the table decides a node searched with the window
probeDecides(e, alpha, beta) ==
  \/ e.Flag = ExactFlag
  \/ e.Flag = BetaFlag /\ e.Value >= beta
  \/ e.Flag = AlphaFlag /\ e.Value <= alpha

\* the value the entry gives the node
probeValue(e, alpha, beta) ==
  IF e.Flag = ExactFlag THEN e.Value ELSE IF e.Flag = BetaFlag THEN beta ELSE alpha

\* C17: when the table holds an entry of the position's hash whose depth is
\* at least the depth of the call, negamax returns what the entry gives
\* without searching the node, whatever the value stored: the value of an
\* Exact entry, beta for a lower bound of at least beta, alpha for an upper
\* bound of at most alpha.  Otherwise the node is searched.
C17_ProbeDecidesNode ==
  [][negamaxCalled =>
       IF /\ board.Hash \in DOMAIN searcher.ttable
          /\ searcher.ttable[board.Hash].Depth >= result'.depthLeft
          /\ probeDecides(searcher.ttable[board.Hash], result'.alpha, result'.beta)
       THEN /\ result'.score = probeValue(searcher.ttable[board.Hash],
                                          result'.alpha, result'.beta)
            /\ searcher'.ttable = searcher.ttable
            /\ searcher'.NodesExplored = 0
            /\ searcher'.TTHits = 1
       ELSE /\ board.Hash \in DOMAIN searcher'.ttable
            /\ searcher'.ttable[board.Hash].Depth = result'.depthLeft]_vars

\* C18: an Exact entry stored for a position at depth d holds the value
\* negamax returns for the position at depth d with the full window, at
\* depth 0 the value of quiescence.
C18_ExactEntryIsNodeValue ==
  /\ result.op = "negamax"
  /\ <<result.alpha, result.beta>> = <<NegInf + 1, PosInf>>
  /\ board.Hash \in DOMAIN searcher.ttable
  /\ searcher.ttable[board.Hash].Flag = ExactFlag
  /\ searcher.ttable[board.Hash].Depth = result.depthLeft
  => searcher.ttable[board.Hash].Value = result.score

\* C19: quiescence recurses on every capture of the legal moves, captures
\* en passant included, and on no other move.  With the full window no
\* cutoff ends the loop early.
C19_QuiescenceTakesCaptures ==
  /\ result.op = "quiescence"
  /\ result.depthLeft > 0
  /\ <<result.alpha, result.beta>> = <<NegInf + 1, PosInf>>
  => Range(result.tried) =
       { m \in Range(GenLegalMoves(board).moves) : getMoveType(m) \in {Attack, AttackEP} }

(***************************************************************************)
(* Properties of the moves out of check.                                   *)
(***************************************************************************)
\* the square of the king of the side to move
RefKingSq(b) == CHOOSE k \in Squares : b.Pieces[k] = KingBB * 32 + usColorOf(b) * 4

\* the enemy pieces that give check
RefCheckers(b) ==
  { from \in Squares :
      /\ b.Pieces[from] # NoPiece
      /\ getPieceColor(b.Pieces[from]) # usColorOf(b)
      /\ RefAttacks(b.Pieces, from, RefKingSq(b)) }

\* the legal moves of the king
RefKingMoves(b) == { m \in RefLegalMoves(b) : getMoveFromSq(m) = RefKingSq(b) }

\* the legal moves of other pieces that take the piece on square sq
RefCapturesOf(b, sq) ==
  { m \in RefLegalMoves(b) :
      /\ getMoveFromSq(m) # RefKingSq(b)
      /\ \/ getMoveType(m) # AttackEP /\ getMoveToSq(m) = sq
         \/ getMoveType(m) = AttackEP /\ epCapturePos(usColorOf(b), getMoveToSq(m)) = sq }

\* C20: in check from one knight or one pawn GenLegalMoves returns the
\* legal king moves and every capture of the checker by a piece not pinned,
\* promoting captures and captures en passant of a checking pawn included;
\* in check from two pieces or more it returns the legal king moves.
C20_KnightOrPawnCheckEvasion ==
  lastOp = "GenLegalMoves" =>
    /\ Cardinality(RefCheckers(board)) >= 2 => Range(moves) = RefKingMoves(board)
    /\ \A c \in RefCheckers(board) :
         RefCheckers(board) = {c} /\ GetPieceType(board.Pieces[c]) \in {KnightBB, PawnBB} =>
           Range(moves) = RefKingMoves(board) \cup RefCapturesOf(board, c)

(***************************************************************************)
(* Properties of the input of the driver.                                  *)
(***************************************************************************)
\* a string of the FEN grammar: six fields, the side w or b, the castling
\* field - or letters of KQkq, the en-passant field - or a square, and two
\* numbers
isNumber(field) ==
  field # << >> /\ \A i \in 1..Len(field) :
    field[i] \in {"0", "1", "2", "3", "4", "5", "6", "7", "8", "9"}

wellFormedFEN(fen) ==
  /\ Len(fen) = 6
  /\ \A i \in 1..Len(fen[1]) :
       fen[1][i] \in {"p", "n", "b", "r", "q", "k", "P", "N", "B", "R", "Q", "K", "/",
                      "1", "2", "3", "4", "5", "6", "7", "8"}
  /\ fen[2] \in {<<"w">>, <<"b">>}
  /\ fen[3] = <<"-">> \/ \A i \in 1..Len(fen[3]) : fen[3][i] \in {"K", "Q", "k", "q"}
  /\ fen[4] = <<"-">> \/
       (Len(fen[4]) = 2 /\ fen[4][1] \in {"a", "b", "c", "d", "e", "f", "g", "h"}
                        /\ fen[4][2] \in {"3", "6"})
  /\ isNumber(fen[5])
  /\ isNumber(fen[6])

\* this step is a call made by the driver
inputCalled(op) == calls' = calls + 1 /\ result'.op = op

\* C14: loading a malformed string (fewer or more than six fields, or a
\* field that cannot be parsed) reports an error and leaves the position
\* loaded before as it was.
C14_MalformedFENRejected ==
  [][inputCalled("LoadFEN") /\ ~wellFormedFEN(result'.fen) =>
       result'.error /\ board' = board]_vars

\* C15: a coordinate move of the driver that is not a legal move of the
\* position, given to DoMoveFromCoords or after "moves" in the position
\* command, is rejected with an error and leaves the position as it was.
C15_IllegalCoordsRejected ==
  [][/\ inputCalled("DoMoveFromCoords") /\ result'.text \notin LegalTexts(board) =>
          result'.error /\ board' = board
     /\ inputCalled("position") /\ result'.text \notin LegalTexts(LoadFEN(board, result'.fen)) =>
          result'.error /\ board' = LoadFEN(board, result'.fen)]_vars

(***************************************************************************)
(* Properties of a game.                                                   *)
(***************************************************************************)
\* a move of the game so far left square sq or landed on it: the piece that
\* stood there when the position was loaded has moved or been captured
touched(sq) ==
  \E i \in 1..Len(movesMade) :
    getMoveFromSq(movesMade[i]) = sq \/ getMoveToSq(movesMade[i]) = sq

\* the list of GenLegalMoves holds a castling move of the kind
castleGenerated(kind) ==
  lastOp = "GenLegalMoves" /\ \E i \in 1..Len(moves) : getMoveType(moves[i]) = kind

\* C21: a castling move is generated only while the king and the rook it
\* castles with have neither moved nor been captured since the position was
\* loaded, also when another rook has come to the corner since.
C21_CastleOnlyWithHomeRook ==
  /\ castleGenerated(CastleWKS) => ~touched(E1) /\ ~touched(H1)
  /\ castleGenerated(CastleWQS) => ~touched(E1) /\ ~touched(A1)
  /\ castleGenerated(CastleBKS) => ~touched(E8) /\ ~touched(H8)
  /\ castleGenerated(CastleBQS) => ~touched(E8) /\ ~touched(A8)

(***************************************************************************)
(* Properties of the coordinate text of moves.                             *)
(***************************************************************************)
\* C22: every move of GenLegalMoves, written as coordinate text and read
\* back on the same position by ConvertLongAlgebraicNotationToMove and by
\* makeMoveFromCoords with standard castling, is the same move: the same
\* squares and the same kind.  A piece other than a pawn going to the
\* en-passant square reads back as a Quiet move.
C22_CoordsRoundTrip ==
  lastOp = "GenLegalMoves" =>
    \A i \in 1..Len(moves) :
      /\ ConvertLongAlgebraicNotationToMove(
           board, ConvertMoveToLongAlgebraicNotation(moves[i])) = moves[i]
      /\ makeMoveFromCoords(board, ConvertMoveToLongAlgebraicNotation(moves[i]), FALSE)
           = moves[i]

(***************************************************************************)
(* Properties of the board under a search.                                 *)
(***************************************************************************)
\* this step is a call of Search
searchCalled == result'.op = "Search" /\ calls' = calls + 1

\* C23: when Search returns, the board is as it was when Search was called:
\* bitboards, mailbox, side to move, castling rights, en-passant square,
\* counters, hash and the height of the undo stack; and during the search
\* the height never exceeded its value at the call plus SearchDepth +
\* QuiesenceSearchDepth.
C23_SearchRestoresBoard ==
  [][searchCalled =>
       /\ Observable(board') = Observable(board)
       /\ result'.peakPly <= board.gamePly + SearchDepth + QuiesenceSearchDepth]_vars

\* a Search of two iterations has returned with moves made and taken back
\* two deep and more, and with hits in the table
C23_Witness ==
  /\ result.op = "Search"
  /\ Len(result.events) = MaxTreeDepth
  /\ result.peakPly >= board.gamePly + MaxTreeDepth
  /\ searcher.ttable # << >>

(***************************************************************************)
(* Properties of the tables of the searcher.                               *)
(***************************************************************************)
\* the tables a Search starts with when the killer moves and the history
\* scores are reset at its start
resetAtStart(t) ==
  [atCallStart(t) EXCEPT !.killerMoves = ZeroTables.killerMoves, !.searchHistory = << >>]

\* the Search of this step made with the killer and history tables reset
searchAfterReset ==
  SearchUpTo(SearcherOf(board, resetAtStart(searcher)), Len(result'.events))

\* C24: the killer moves and the history scores are reset at the start of
\* every Search: a Search orders the root moves as it does with both tables
\* empty at its start, and the tables it leaves hold only what it recorded.
C24_KillersAndHistoryReset ==
  [][searchCalled =>
       /\ result'.ordered = searchAfterReset.last.ordered
       /\ searcher'.killerMoves = searchAfterReset.s.killerMoves
       /\ searcher'.searchHistory = searchAfterReset.s.searchHistory]_vars

(***************************************************************************)
(* Properties of the move ordering.                                        *)
(***************************************************************************)
\* the score orderMoves gives move i of the generated list at the root
orderScore(i) == moveScoreIn(SearcherOf(board, searcher), moves[i], 1)

\* C25: in orderMoves every capture, whatever pieces take and are taken,
\* scores above every move that neither captures nor promotes: above the
\* two killer bonuses and above every history score.
C25_CapturesAboveQuietMoves ==
  lastOp = "GenLegalMoves" =>
    \A i \in 1..Len(moves) :
      isCapture(moves[i]) =>
        /\ orderScore(i) > FirstKillerBonus
        /\ orderScore(i) > SecondKillerBonus
        /\ \A ft \in DOMAIN searcher.searchHistory :
             orderScore(i) > searcher.searchHistory[ft]

\* the value of the piece a promotion of this kind puts on the board
promotedValue(moveType) ==
  CASE moveType = KnightPromotion -> KnightValue
    [] moveType = BishopPromotion -> BishopValue
    [] moveType = RookPromotion -> RookValue
    [] moveType = QueenPromotion -> QueenValue

\* the value of what stands on a square, nothing for an empty square
valueOn(sq) ==
  IF board.Pieces[sq] = NoPiece THEN 0 ELSE getPieceValue(GetPieceType(board.Pieces[sq]))

\* C26: orderMoves scores a promotion with the value of the promoted piece
\* plus the value of the piece taken, and plus nothing when the destination
\* is empty: 975, 500, 330 and 320 for a promotion that takes nothing.
C26_PromotionScore ==
  lastOp = "GenLegalMoves" =>
    \A i \in 1..Len(moves) :
      getMoveType(moves[i]) \in { KnightPromotion, BishopPromotion, RookPromotion, QueenPromotion } =>
        orderScore(i) = promotedValue(getMoveType(moves[i])) + valueOn(getMoveToSq(moves[i]))

(***************************************************************************)
(* sortMoves called on its own: a list of distinct moves with any scores   *)
(* of a small range, of every length up to MaxSortLen.                     *)
(***************************************************************************)
SortScores == 0..2

\* n distinct quiet moves
someMoves(n) == [i \in 1..n |-> MakeMove(i, i + 8, Quiet)] @@ << >>

scoreLists(n) == { sc @@ << >> : sc \in [1..n -> SortScores] }

\* sortMoves(&moves, &moveScores); both lists are changed in place
SortMovesAct ==
  \E n \in 0..MaxSortLen :
    \E sc \in scoreLists(n) :
      /\ result' = [op |-> "sortMoves",
                    moves |-> someMoves(n),
                    moveScores |-> sc,
                    sorted |-> sortOuter([list |-> someMoves(n), scores |-> sc], 1)]
      /\ lastOp' = "sortMoves"
      /\ UNCHANGED << board, moves, movesMade, searchVars, searcher, calls >>

NextSort == SortMovesAct

SpecSort == Init /\ [][NextSort]_vars

\* where the move stood in the list handed to sortMoves
placeBefore(move) == CHOOSE i \in 1..Len(result.moves) : result.moves[i] = move

\* C27: sortMoves reorders the moves and the scores by the same
\* permutation, leaves the scores non-increasing and keeps moves of equal
\* score in the order they had, for every length of the list.
C27_SortMovesStable ==
  result.op = "sortMoves" =>
    LET n == Len(result.moves)
        out == result.sorted
    IN /\ Len(out.list) = n
       /\ Len(out.scores) = n
       /\ { out.list[k] : k \in 1..n } = { result.moves[k] : k \in 1..n }
       /\ \A k \in 1..n : out.scores[k] = result.moveScores[placeBefore(out.list[k])]
       /\ \A k \in 1..(n - 1) : out.scores[k] >= out.scores[k + 1]
       /\ \A k \in 1..n : \A l \in (k + 1)..n :
            out.scores[k] = out.scores[l] => placeBefore(out.list[k]) < placeBefore(out.list[l])
       /\ sortMoves(result.moves, result.moveScores) = out.list

\* a list of full length with two equal scores behind a lower one
C27_Witness ==
  /\ result.op = "sortMoves"
  /\ Len(result.moves) = MaxSortLen
  /\ result.sorted.list # result.moves
  /\ \E k \in 1..MaxSortLen : \E l \in (k + 1)..MaxSortLen : \E m \in (l + 1)..MaxSortLen :
       /\ result.moveScores[k] < result.moveScores[l]
       /\ result.moveScores[l] = result.moveScores[m]

(***************************************************************************)
(* Properties of the evaluation.                                           *)
(***************************************************************************)
\* what the king adds to evaluatePosition from its own table
kingTableValue(b, usColor) ==
  evaluatePosition(b, usColor)
    - pstSum(b, b.PieceBB[usColor] \ (b.PieceBB[RookBB] \cup b.PieceBB[QueenBB]),
             IF usColor = WhiteBB THEN 63 ELSE 0,
             IF usColor = WhiteBB THEN 1 ELSE -1)

piecesLeft(b) == Cardinality(b.PieceBB[WhiteBB] \cup b.PieceBB[BlackBB])

\* C28: the king is scored with the endgame table exactly when at most
\* EndgameThreshold pieces are left on the board, and with the middlegame
\* table when more are left.
C28_EndgameTableWhenFewPieces ==
  Loaded =>
    \A usColor \in { WhiteBB, BlackBB } :
      kingTableValue(board, usColor)
        = pstValue(IF piecesLeft(board) <= EndgameThreshold
                   THEN KingPSTEndgameIndex ELSE KingPSTMiddlegameIndex,
                   getLSBPos(board.PieceBB[usColor] \cap board.PieceBB[KingBB]))

\* the square on the same file seen from the other side of the board
mirrorSq(sq) == ((7 - (sq \div 8)) * 8) + (sq % 8)

\* the piece of the other colour
otherColour(piece) ==
  IF piece = NoPiece THEN NoPiece
  ELSE GetPieceType(piece) * 32 + (IF getPieceColor(piece) = WhiteBB THEN Black ELSE White)

\* the position with the colours swapped, the ranks mirrored and the other
\* side to move
mirrored(b) ==
  [b EXCEPT
     !.PieceBB = [k \in DOMAIN b.PieceBB |->
                    { mirrorSq(sq) : sq \in b.PieceBB[IF k = WhiteBB THEN BlackBB
                                                       ELSE IF k = BlackBB THEN WhiteBB ELSE k] }],
     !.Pieces = [sq \in DOMAIN b.Pieces |-> otherColour(b.Pieces[mirrorSq(sq)])],
     !.WhiteToMove = ~b.WhiteToMove]

\* C29: the evaluation is the same for both colours: a position and the
\* position with colours swapped, ranks mirrored and the other side to move
\* get the same score from evaluateBoard.
C29_EvaluationColourSymmetric ==
  Loaded => evaluateBoard(board) = evaluateBoard(mirrored(board))

(***************************************************************************)
(* Two pawn endings with black to move that meet in one position: a7xb6 in *)
(* the first and b7-b6 in the second both allow g6-g7 mate.  The driver    *)
(* sends position and go commands to one Searcher.                         *)
(***************************************************************************)
\* 7k/p4K1p/1N4P1/1P6/8/8/8/8 b - - 0 1
FenKnightToTake ==
  << <<"7", "k", "/", "p", "4", "K", "1", "p", "/", "1", "N", "4", "P", "1", "/", "1", "P", "6", "/", "8", "/", "8", "/", "8", "/", "8">>, <<"b">>, <<"-">>, <<"-">>, <<"0">>, <<"1">> >>

\* 7k/1p3K1p/6P1/1P6/8/8/8/8 b - - 0 1
FenPawnToPush ==
  << <<"7", "k", "/", "1", "p", "3", "K", "1", "p", "/", "6", "P", "1", "/", "1", "P", "6", "/", "8", "/", "8", "/", "8", "/", "8">>, <<"b">>, <<"-">>, <<"-">>, <<"0">>, <<"1">> >>

LineFENS == { FenKnightToTake, FenPawnToPush }

\* the position command
LinePosition ==
  /\ lastOp # "panic"
  /\ \E fen \in LineFENS :
       /\ ~LoadFENPanics(fen)
       /\ board' = LoadFEN(board, fen)
  /\ moves' = << >>
  /\ movesMade' = << >>
  /\ lastOp' = "LoadFEN"
  /\ result' = NoResult
  /\ UNCHANGED << searchVars, searcher, calls >>

\* the go command, and a stop command during iteration lastDepth
LineSearch ==
  /\ lastOp # "panic"
  /\ Loaded
  /\ calls < MaxCalls
  /\ \E lastDepth \in 1..MaxLineDepth :
       searchReturned(SearchUpTo(SearcherOf(board, atCallStart(searcher)), lastDepth))

NextLines ==
  \/ LinePosition
  \/ LineSearch

SpecLines == Init /\ [][NextLines]_vars

(***************************************************************************)
(* Properties of the lines Search prints.                                  *)
(***************************************************************************)
\* a score within SearchDepth of PosInf or of NegInf
isMateScore(score) ==
  \/ score > PosInf - SearchDepth /\ score <= PosInf
  \/ score < NegInf + SearchDepth /\ score >= NegInf

\* C30: within one Search a line reports "score mate" only if the score of
\* its own iteration is a mate score; an iteration with an ordinary value
\* reports "score cp", also after an iteration that reported a mate.
C30_MateLineOnlyForMateScore ==
  result.op = "Search" =>
    \A k \in 1..Len(result.events) :
      result.events[k].mate # 0 => isMateScore(result.events[k].score)

====
